---------------------------- MODULE Spec2Model ----------------------------
(***************************************************************************)
(* djangophysics: the unit registry (UnitSystem, Dimension, Unit) and the  *)
(* batch converter (UnitConverter, ConvertView) as a state machine.        *)
(*                                                                         *)
(* Spec     the convert endpoint working on the session store              *)
(* SpecReg  UnitSystem instances: construction, add_unit, add_dimension    *)
(***************************************************************************)
EXTENDS Integers, Sequences, FiniteSets, TLC

(***************************************************************************)
(* Bounds of the model                                                     *)
(***************************************************************************)
MaxData == 2
MaxAccum == 3
MaxSessions == 1
MaxInstances == 2

(***************************************************************************)
(* Markers                                                                 *)
(***************************************************************************)
NoUser == "<no user>"
NoKey == "<no key>"
NoId == "<no id>"
Absent == [absent |-> TRUE]

(***************************************************************************)
(* Callers, systems, units that requests are drawn from                    *)
(***************************************************************************)
Users == {"alice", "bob"}
Superusers == {"root"}
Keys == {"k1"}
BatchIds == {"b1"}

\* (user, key) of a request: request.user when authenticated, POST 'key'
Callers ==
    { [user |-> NoUser, key |-> NoKey] } \cup
    { [user |-> "alice", key |-> k] : k \in Keys }

\* dir(ureg.sys) of pint, restricted to two systems
AvailableSystems == {"SI", "US"}

\* str.lower() on the system names the model uses
Lower(s) ==
    CASE s = "SI" -> "si"
      [] s = "si" -> "si"
      [] s = "US" -> "us"
      [] s = "us" -> "us"
      [] OTHER -> s

(***************************************************************************)
(* The pint registry: dimensions, units, prefixes                          *)
(***************************************************************************)
BuiltinDimensions == {"[length]", "[mass]", "[time]", "[current]"}

\* units the default pint definitions give every registry
BuiltinUnits == {"meter", "gram", "second", "ampere"}

\* dir(getattr(ureg.sys, system_name)): the members of the system
SystemMembers(system_name) ==
    IF system_name = "SI" THEN {"meter", "kilogram", "second", "ampere"}
    ELSE {"foot", "pound", "second", "ampere"}

PintPrefixes == {"micro", "milli", "centi", "kilo"}

PrefixFactor(p) ==
    CASE p = "micro" -> <<1, 1000000>>
      [] p = "milli" -> <<1, 1000>>
      [] p = "centi" -> <<1, 100>>
      [] p = "kilo" -> <<1000, 1>>

\* settings.py: PREFIXED_UNITS_DISPLAY
PREFIXED_UNITS_DISPLAY ==
    [meter |-> <<"milli", "centi", "kilo">>,
     gram |-> <<"milli", "kilo">>,
     second |-> <<"micro", "milli">>,
     ampere |-> <<"milli">>]

\* unit expressions pint refuses to parse as a unit (DefinitionSyntaxError,
\* "Unit expression cannot have a scaling factor": ValueError)
NonUnitExpressions == {"2 meter"}


\* the definitions pint loads for these units: dimension and factor to the
\* base unit of the dimension (num / den)
BuiltinDefs ==
    [meter |-> [dim |-> "[length]", num |-> 1, den |-> 1],
     gram |-> [dim |-> "[mass]", num |-> 1, den |-> 1000],
     second |-> [dim |-> "[time]", num |-> 1, den |-> 1],
     ampere |-> [dim |-> "[current]", num |-> 1, den |-> 1],
     foot |-> [dim |-> "[length]", num |-> 3, den |-> 10],
     pound |-> [dim |-> "[mass]", num |-> 9, den |-> 20],
     knot |-> [dim |-> "[length] / [time]", num |-> 463, den |-> 900]]

NoUnit == [ok |-> FALSE, dim |-> "", num |-> 0, den |-> 1]

\* relations ureg.define cannot parse (a closing parenthesis never opened):
\* pint raises DefinitionSyntaxError, a ValueError
MalformedUnitRefs == {"meter)"}
MalformedDimensionRelations == {"[length])"}

UnitRelationParses(relation) == relation.ref \notin MalformedUnitRefs
DimensionRelationParses(relation) ==
    relation \notin MalformedDimensionRelations

(***************************************************************************)
(* State                                                                   *)
(***************************************************************************)
VARIABLES
    store,             \* the cache: batch id -> pickled converter, or Absent
    orphans,           \* sessions left in the cache under generated ids
    response,          \* what the last call of the convert endpoint answered
    closed,            \* batch ids for which convert() has returned
    fed,               \* per batch id, the quantities accepted since its last close
    customUnits,       \* rows of CustomUnit
    customDimensions,  \* rows of CustomDimension
    djsettings,        \* ADDITIONAL_UNITS, ADDITIONAL_DIMENSIONS, ADDITIONAL_BASE_UNITS
    classAttrs,        \* class attributes of UnitSystem
    registries,        \* UnitSystem instances, by slot
    lastOp             \* the last operation on a UnitSystem instance

vars == <<store, orphans, response, closed, fed, customUnits, customDimensions,
          djsettings, classAttrs, registries, lastOp>>

(***************************************************************************)
(* UnitSystem                                                              *)
(***************************************************************************)
\* an instance attribute that shadows the class attribute once assigned
Own(v) == [own |-> TRUE, val |-> v]
NotOwn == [own |-> FALSE, val |-> {}]
Eff(attr, classValue) == IF attr.own THEN attr.val ELSE classValue

Range(f) == { f[x] : x \in DOMAIN f }

\* UnitSystem.__init__, lines 83-90
ValidSystem(system_name) ==
    \E a \in AvailableSystems : Lower(system_name) = Lower(a)

\* the name kept as the caller spelled it
CanonicalSystem_as_given(system_name) == system_name

CanonicalSystem(system_name) ==
    CHOOSE a \in AvailableSystems : Lower(system_name) = Lower(a)

\* prefix + key for every entry of PREFIXED_UNITS_DISPLAY
PrefixedUnitNames ==
    UNION { { PREFIXED_UNITS_DISPLAY[k][i] \o k :
                i \in 1..Len(PREFIXED_UNITS_DISPLAY[k]) } :
            k \in DOMAIN PREFIXED_UNITS_DISPLAY }

available_dimension_names(us) == us.dims

available_unit_names(us) ==
    PrefixedUnitNames \cup SystemMembers(us.system_name)
        \cup Eff(us.additional_units, classAttrs.additional_units)

\* codes users give their custom units
CustomCodes == {"cu"}

\* pint reads a code it has no definition for as prefix + unit
PrefixedCodes ==
    LET units == DOMAIN BuiltinDefs \cup CustomCodes
        splits == PintPrefixes \X units
    IN  [c \in { x[1] \o x[2] : x \in splits } |->
            CHOOSE x \in splits : c = x[1] \o x[2]]

\* pint: the definition a unit code resolves to in the registry of us
RECURSIVE UnitInfo(_, _, _)
UnitInfo(us, code, fuel) ==
    IF code \in DOMAIN us.defs
    THEN IF fuel = 0 THEN NoUnit
         ELSE LET b == UnitInfo(us, us.defs[code].ref, fuel - 1)
              IN  IF b.ok
                  THEN [ok |-> TRUE, dim |-> b.dim,
                        num |-> us.defs[code].coef * b.num, den |-> b.den]
                  ELSE NoUnit
    ELSE IF code \in DOMAIN BuiltinDefs
    THEN [ok |-> TRUE, dim |-> BuiltinDefs[code].dim,
          num |-> BuiltinDefs[code].num, den |-> BuiltinDefs[code].den]
    ELSE IF \/ code \notin DOMAIN PrefixedCodes
            \/ PrefixedCodes[code][2] \notin
                   DOMAIN BuiltinDefs \cup DOMAIN us.defs
            \/ fuel = 0
         THEN NoUnit
         ELSE LET pu == PrefixedCodes[code]
                      b == UnitInfo(us, pu[2], fuel - 1)
                  IN  IF b.ok
                      THEN [ok |-> TRUE, dim |-> b.dim,
                            num |-> PrefixFactor(pu[1])[1] * b.num,
                            den |-> PrefixFactor(pu[1])[2] * b.den]
                      ELSE NoUnit

ResolveFuel == 3

\* Unit.__init__: getattr(unit_system.system, code), UnitNotFound when undefined
UnitFound(us, code) == code # "" /\ UnitInfo(us, code, ResolveFuel).ok

\* Dimension.__init__ that looks nothing up
DimensionFound_unchecked(us, code) == TRUE

\* Dimension.__init__: DimensionNotFound unless pseudo, cache empty or cached
DimensionFound(us, code) ==
    \/ code \in {"[compounded]", "[custom]"}
    \/ Eff(us.dimensions_cache, classAttrs.dimensions_cache) = {}
    \/ code \in Eff(us.dimensions_cache, classAttrs.dimensions_cache)

available_dimensions(us) ==
    IF Eff(us.dimensions_cache, classAttrs.dimensions_cache) # {}
    THEN Eff(us.dimensions_cache, classAttrs.dimensions_cache)
    ELSE { dim \in available_dimension_names(us) : DimensionFound(us, dim) }

available_units(us) ==
    IF Eff(us.units_cache, classAttrs.units_cache) # {}
    THEN Eff(us.units_cache, classAttrs.units_cache)
    ELSE available_unit_names(us)

rebuild_cache(us) ==
    LET a == [us EXCEPT !.dimensions_cache = Own(available_dimensions(us))]
    IN  [a EXCEPT !.units_cache = Own(available_units(a))]

\* CustomRows without the filter on the user
CustomRows_of_any_user(rows, us, user, key) ==
    LET authenticated == user \in Users \cup Superusers
        mine == IF ~authenticated THEN {} ELSE rows
        keyed == IF authenticated /\ key # NoKey
                 THEN { r \in mine : r.key = key \/ r.key = NoKey }
                 ELSE mine
    IN  { r \in keyed : r.unit_system = us.system_name }

\* the rows _load_custom_dimensions / _load_custom_units read: those of the
\* user (all rows for a superuser), of the key or without key, of the system
CustomRows(rows, us, user, key) ==
    LET authenticated == user \in Users \cup Superusers
        mine == IF ~authenticated THEN {}
                ELSE IF user \in Superusers THEN rows
                ELSE { r \in rows : r.user = user }
        keyed == IF authenticated /\ key # NoKey
                 THEN { r \in mine : r.key = key \/ r.key = NoKey }
                 ELSE mine
    IN  { r \in keyed : r.unit_system = us.system_name }

\* codes the pint registry of us holds a definition for
DefinedUnits(us) == DOMAIN BuiltinDefs \cup DOMAIN us.defs

\* what unit() returns when it returns no Unit
None == "None"

\* Unit(unit_system=us, code=code): the Unit, or UnitNotFound for no code and
\* for a code pint raises UndefinedUnitError on
Unit_init(us, code) ==
    IF code = "" \/ ~UnitFound(us, code)
    THEN [returned |-> FALSE, value |-> None, exc |-> "UnitNotFound"]
    ELSE [returned |-> TRUE, value |-> code, exc |-> ""]

\* UnitSystem.unit without the except clause
UnitSystem_unit_raising(us, unit_name) == Unit_init(us, unit_name)

\* UnitSystem.unit, lines 309-317: UnitNotFound is caught, None is returned
UnitSystem_unit(us, unit_name) ==
    IF Unit_init(us, unit_name).exc = "UnitNotFound"
    THEN [returned |-> TRUE, value |-> None, exc |-> ""]
    ELSE Unit_init(us, unit_name)

\* ureg._cache.dimensional_equivalents[dimensionality]: the names the
\* registry holds a definition for that have the dimensionality. pint's
\* _build_cache enters the name of a definition only, never a prefixed name.
dimensional_equivalents(us, dim) ==
    { n \in DefinedUnits(us) :
        /\ UnitInfo(us, n, ResolveFuel).ok
        /\ UnitInfo(us, n, ResolveFuel).dim = dim }

\* ureg.define on each of the codes: a relation that does not parse raises
\* ValueError out of the load; a code the registry already defines is defined
\* again (on_redefinition is 'warn': pint logs and overwrites)
Defined(us, codes, parses, present) ==
    IF ~parses THEN [us EXCEPT !.exc = "ValueError"]
    ELSE [us EXCEPT !.redefined = @ \cup (codes \cap present)]

load_additional_dimensions(us, dimensions) ==
    IF us.exc # "" \/ us.system_name \notin DOMAIN dimensions THEN us
    ELSE LET available == available_dimension_names(us)
             table == dimensions[us.system_name]
             added == { k \in DOMAIN table : k \notin available }
             parses == \A k \in added :
                          DimensionRelationParses(table[k].relation)
             defined == Defined(us, added, parses, us.dims)
         IN  IF ~parses THEN defined
             ELSE [defined EXCEPT
                     !.dims = @ \cup added,
                     !.additional_dimensions =
                         Own(Eff(@, classAttrs.additional_dimensions)
                               \cup added)]

\* load_additional_units with redefine on: a code that is available is
\* defined again from the table
load_additional_units_redefining(us, units) ==
    IF us.exc # "" \/ us.system_name \notin DOMAIN units THEN us
    ELSE LET table == units[us.system_name]
             added == { k \in DOMAIN table :
                          k \notin available_unit_names(us) }
             parses == \A k \in DOMAIN table :
                          UnitRelationParses(table[k].relation)
             defined == Defined(us, DOMAIN table, parses, DefinedUnits(us))
         IN  IF ~parses THEN defined
             ELSE [defined EXCEPT
                     !.defs = [k \in DOMAIN table |-> table[k].relation] @@ @,
                     !.additional_units =
                         Own(Eff(@, classAttrs.additional_units) \cup added)]

load_additional_units(us, units) ==
    IF us.exc # "" \/ us.system_name \notin DOMAIN units THEN us
    ELSE LET available == available_unit_names(us)
             table == units[us.system_name]
             added == { k \in DOMAIN table : k \notin available }
             parses == \A k \in added : UnitRelationParses(table[k].relation)
             defined == Defined(us, added, parses, DefinedUnits(us))
         IN  IF ~parses THEN defined
             ELSE [defined EXCEPT
                     !.defs = [k \in added |-> table[k].relation] @@ @,
                     !.additional_units =
                         Own(Eff(@, classAttrs.additional_units) \cup added)]

\* codes that several rows of the queryset carry: each row is defined in turn
Repeated(qs, codes) ==
    { c \in codes : Cardinality({ r \in qs : r.code = c }) > 1 }

\* line 199 tests the row (a dict) against the list of names: never found
load_custom_dimensions_of(rows, us, user, key) ==
    IF us.exc # "" THEN us
    ELSE LET qs == CustomRows(rows, us, user, key)
             added == { cd.code : cd \in qs }
             parses == \A cd \in qs : DimensionRelationParses(cd.relation)
             defined == Defined(us, added, parses,
                                us.dims \cup Repeated(qs, added))
         IN  IF ~parses THEN defined
             ELSE [defined EXCEPT
                     !.dims = @ \cup added,
                     !.additional_dimensions =
                         Own(Eff(@, classAttrs.additional_dimensions)
                               \cup added)]

\* _load_custom_dimensions over the rows CustomDimension.objects holds now
load_custom_dimensions(us, user, key) ==
    load_custom_dimensions_of(customDimensions, us, user, key)

\* the queryset is ordered by name, then code: of several rows with one code
\* the last one defined stays
load_custom_units_of(rows, us, user, key) ==
    IF us.exc # "" THEN us
    ELSE LET qs == CustomRows(rows, us, user, key)
             available == available_unit_names(us)
             taken == { r \in qs : r.code \notin available }
             added == { cu.code : cu \in taken }
             parses == \A cu \in taken : UnitRelationParses(cu.relation)
             relationOf(code) ==
                 (CHOOSE r \in taken : r.code = code).relation
             defined == Defined(us, added, parses,
                                DefinedUnits(us) \cup Repeated(taken, added))
         IN  IF ~parses THEN defined
             ELSE [defined EXCEPT
                     !.defs = [k \in added |-> relationOf(k)] @@ @,
                     !.additional_units =
                         Own(Eff(@, classAttrs.additional_units) \cup added)]

\* _load_custom_units over the rows CustomUnit.objects holds now
load_custom_units(us, user, key) ==
    load_custom_units_of(customUnits, us, user, key)

\* UnitSystem.__init__ past the check of the name, units and dimensions being
\* the rows of the two stores when it runs
NewUnitSystem_of(units, dimensions, system_name, user, key) ==
    LET us0 == [system_name |-> CanonicalSystem(system_name),
                user |-> user, key |-> key,
                dims |-> BuiltinDimensions,
                defs |-> <<>>,
                redefined |-> {},
                exc |-> "",
                additional_units |-> NotOwn,
                additional_dimensions |-> NotOwn,
                dimensions_cache |-> NotOwn,
                units_cache |-> NotOwn]
        us1 == load_additional_dimensions(us0, djsettings.ADDITIONAL_DIMENSIONS)
        us2 == load_additional_units(us1, djsettings.ADDITIONAL_BASE_UNITS)
        us3 == load_additional_units(us2, djsettings.ADDITIONAL_UNITS)
        us4 == IF user # NoUser
               THEN load_custom_units_of(units,
                        load_custom_dimensions_of(dimensions, us3, user, key),
                        user, key)
               ELSE us3
    IN  IF us4.exc # "" THEN us4 ELSE rebuild_cache(us4)

NewUnitSystem(system_name, user, key) ==
    NewUnitSystem_of(customUnits, customDimensions, system_name, user, key)

\* UnitSystem(...): the instance, or the exception that leaves __init__:
\* UnitSystemNotFound for the name, the ValueError of a define (line 114
\* catches FileNotFoundError and AttributeError only)
UnitSystem_of(units, dimensions, system_name, user, key) ==
    IF ~ValidSystem(system_name)
    THEN [ok |-> FALSE, us |-> <<>>, exc |-> "UnitSystemNotFound"]
    ELSE LET made == NewUnitSystem_of(units, dimensions,
                                      system_name, user, key)
         IN  [ok |-> made.exc = "", us |-> made, exc |-> made.exc]

UnitSystem(system_name, user, key) ==
    UnitSystem_of(customUnits, customDimensions, system_name, user, key)

(***************************************************************************)
(* Requests of the convert endpoint                                        *)
(***************************************************************************)
PayloadSystems == {"SI", "zz"}
PayloadUnits == {"meter", "cu", "nounit"}
DataUnits == {"meter", "kilogram", "bogus", "2 meter"}

\* a line of the payload's data: well formed, or without its value
WellFormedLines == { [unit |-> u, value |-> 1] : u \in DataUnits }
MalformedLines == { [unit |-> "meter"] }
Lines == WellFormedLines \cup MalformedLines

DataLists == UNION { [1..n -> Lines] : n \in 0..MaxData }

\* QuantitySerializer.is_valid: unit and value are there
LineValid(line) == {"unit", "value"} \subseteq DOMAIN line

(***************************************************************************)
(* Fractions, for the converted values                                     *)
(***************************************************************************)
RECURSIVE GCD(_, _)
GCD(a, b) == IF b = 0 THEN a ELSE GCD(b, a % b)

Frac(n, d) == LET g == GCD(n, d) IN IF g = 0 THEN <<0, 1>> ELSE <<n \div g, d \div g>>
FracAdd(x, y) == Frac(x[1] * y[2] + y[1] * x[2], x[2] * y[2])

(***************************************************************************)
(* BaseConverter and ConverterResult (djangophysics.converters.models)     *)
(***************************************************************************)
GeneratedId == "<generated>"

\* BaseConverter.__init__: the id given, or a generated one
BaseConverter_init(id) ==
    [id |-> IF id = NoId THEN GeneratedId ELSE id,
     status |-> "OPEN", data |-> <<>>]

\* the cache during one call: the sessions under the callers' ids, and
\* whether the session under this call's generated id is in it
Cache(st, gen) == [store |-> st, generated |-> gen]

\* BaseConverter.load: the pickled converter, or ConverterLoadError
BaseConverter_load(cache, id) ==
    IF id \in DOMAIN cache.store /\ cache.store[id] # Absent
    THEN [ok |-> TRUE, conv |-> cache.store[id]]
    ELSE [ok |-> FALSE, conv |-> <<>>]

\* BaseConverter.save: put
BaseConverter_save(cache, conv) ==
    IF conv.id = GeneratedId
    THEN [cache EXCEPT !.generated = TRUE]
    ELSE [cache EXCEPT !.store[conv.id] = conv]

\* BaseConverter.end_batch: closed, and deleted from the store
BaseConverter_end_batch(cache, conv) ==
    IF conv.id = GeneratedId
    THEN [cache EXCEPT !.generated = FALSE]
    ELSE [cache EXCEPT !.store[conv.id] = Absent]

\* ConverterResult(id, target)
ConverterResult(id, target) ==
    [id |-> id, target |-> target, detail |-> <<>>, errors |-> <<>>,
     sum |-> <<0, 1>>]

(***************************************************************************)
(* UnitConverter                                                           *)
(***************************************************************************)
\* UnitConverter.__init__: the converter, or UnitConverterInitError
UnitConverter_init(base_system, base_unit, user, key, id) ==
    LET built == UnitSystem(base_system, user, key)
    IN  IF built.ok /\ UnitFound(built.us, base_unit)
        THEN [ok |-> TRUE,
              conv |-> BaseConverter_init(id) @@
                       [base_system |-> base_system, base_unit |-> base_unit,
                        user |-> user, key |-> key],
              system |-> built.us]
        ELSE [ok |-> FALSE, conv |-> <<>>, system |-> <<>>]

\* UnitConverter.check_data: valid lines become quantities of the session
check_data(conv, data) ==
    [conv |-> [conv EXCEPT !.data = @ \o SelectSeq(data, LineValid)],
     errors |-> SelectSeq(data, LAMBDA line : ~LineValid(line))]

\* UnitConverter.add_data -> BaseConverter.add_data: check, then save
add_data(cache, conv, data) ==
    LET checked == check_data(conv, data)
        saved == [checked.conv EXCEPT !.status = "ACCUMULATING"]
    IN  [cache |-> BaseConverter_save(cache, saved),
         conv |-> saved,
         errors |-> checked.errors]

\* UnitConverter.load: the stored converter with a registry built for the
\* user and key of the call, or ConverterLoadError
UnitConverter_load(cache, id, user, key) ==
    LET loaded == BaseConverter_load(cache, id)
    IN  IF ~loaded.ok THEN [ok |-> FALSE, conv |-> <<>>, system |-> <<>>]
        ELSE LET built == UnitSystem(loaded.conv.base_system, user, key)
             IN  IF built.ok /\ UnitFound(built.us, loaded.conv.base_unit)
                 THEN [ok |-> TRUE, conv |-> loaded.conv, system |-> built.us]
                 ELSE [ok |-> FALSE, conv |-> <<>>, system |-> <<>>]

\* ConvertOne without the check of the dimensions that .to() makes
ConvertOne_unchecked(system, base_unit, quantity) ==
    LET src == UnitInfo(system, quantity.unit, ResolveFuel)
        dst == UnitInfo(system, base_unit, ResolveFuel)
    IN  IF quantity.unit \in NonUnitExpressions THEN [outcome |-> "raise"]
        ELSE IF ~src.ok THEN [outcome |-> "UndefinedUnitError"]
        ELSE [outcome |-> "converted",
              magnitude |-> Frac(quantity.value * src.num * dst.den,
                                 src.den * dst.num)]

\* one turn of the loop of convert(): q_(value, unit).to(base_unit)
ConvertOne(system, base_unit, quantity) ==
    LET src == UnitInfo(system, quantity.unit, ResolveFuel)
        dst == UnitInfo(system, base_unit, ResolveFuel)
    IN  IF quantity.unit \in NonUnitExpressions THEN [outcome |-> "raise"]
        ELSE IF ~src.ok THEN [outcome |-> "UndefinedUnitError"]
        ELSE IF src.dim # dst.dim THEN [outcome |-> "DimensionalityError"]
        ELSE [outcome |-> "converted",
              magnitude |-> Frac(quantity.value * src.num * dst.den,
                                 src.den * dst.num)]

RECURSIVE ConvertLoop(_, _, _, _, _)
ConvertLoop(system, base_unit, data, i, result) ==
    IF i > Len(data) THEN [raised |-> FALSE, result |-> result]
    ELSE LET quantity == data[i]
             one == ConvertOne(system, base_unit, quantity)
         IN  CASE one.outcome = "raise" ->
                    [raised |-> TRUE, result |-> result]
               [] one.outcome = "converted" ->
                    ConvertLoop(system, base_unit, data, i + 1,
                        [result EXCEPT
                           !.sum = FracAdd(@, one.magnitude),
                           !.detail = Append(@,
                               [unit |-> quantity.unit,
                                original_value |-> quantity.value,
                                converted_value |-> one.magnitude])])
               [] one.outcome = "UndefinedUnitError" ->
                    ConvertLoop(system, base_unit, data, i + 1,
                        [result EXCEPT !.errors = Append(@,
                               [unit |-> quantity.unit,
                                original_value |-> quantity.value,
                                error |-> "Undefined unit in the registry"])])
               [] one.outcome = "DimensionalityError" ->
                    ConvertLoop(system, base_unit, data, i + 1,
                        [result EXCEPT !.errors = Append(@,
                               [unit |-> quantity.unit,
                                original_value |-> quantity.value,
                                error |-> "Dimensionality error, incompatible units"])])

\* convert without its call of end_batch
convert_without_end_batch(cache, conv, system) ==
    LET looped == ConvertLoop(system, conv.base_unit, conv.data, 1,
                              ConverterResult(conv.id, conv.base_unit))
    IN  [raised |-> looped.raised, result |-> looped.result, cache |-> cache]

\* UnitConverter.convert: the result and the cache after end_batch, or the
\* exception of a quantity that neither except clause catches
convert(cache, conv, system) ==
    LET looped == ConvertLoop(system, conv.base_unit, conv.data, 1,
                              ConverterResult(conv.id, conv.base_unit))
    IN  IF looped.raised
        THEN [raised |-> TRUE, result |-> looped.result, cache |-> cache]
        ELSE [raised |-> FALSE, result |-> looped.result,
              cache |-> BaseConverter_end_batch(cache, conv)]

(***************************************************************************)
(* ConvertView.post                                                        *)
(***************************************************************************)
NoResponse ==
    [kind |-> "none", exc |-> "", id |-> NoId, closing |-> FALSE,
     malformed |-> FALSE, status |-> "",
     result |-> ConverterResult(NoId, ""),
     errors |-> <<>>, converted |-> <<>>, fed |-> <<>>, reconverted |-> FALSE]

\* the cache holds at most MaxSessions sessions
Fits(cache) ==
    Cardinality({ b \in BatchIds : cache.store[b] # Absent }) + orphans
        + (IF cache.generated THEN 1 ELSE 0) <= MaxSessions

\* what the call leaves in the cache
Stored(cache) ==
    /\ store' = cache.store
    /\ orphans' = orphans + (IF cache.generated THEN 1 ELSE 0)

\* lines 404-414, with the converter of lines 391-400
post_data(got, batch_id, eob, data) ==
    LET cache0 == Cache(store, FALSE)
        answer == [NoResponse EXCEPT
                     !.id = batch_id,
                     !.closing = (eob \/ batch_id = NoId),
                     !.malformed = (\E i \in DOMAIN data : ~LineValid(data[i]))]
        accepted == IF batch_id \in BatchIds
                    THEN fed[batch_id] \o SelectSeq(data, LineValid)
                    ELSE SelectSeq(data, LineValid)
        fedAfter == IF batch_id \in BatchIds
                    THEN [fed EXCEPT ![batch_id] = accepted]
                    ELSE fed
    IN  \E added \in {IF data # <<>>
                      THEN add_data(cache0, got.conv, data)
                      ELSE [cache |-> cache0, conv |-> got.conv,
                            errors |-> <<>>]} :
        /\ Len(accepted) <= MaxAccum
        /\ Fits(added.cache)
        /\ IF added.errors # <<>>
           THEN /\ response' = [answer EXCEPT !.kind = "400 errors",
                                              !.errors = added.errors]
                /\ Stored(added.cache)
                /\ fed' = fedAfter
                /\ UNCHANGED closed
           ELSE IF eob \/ batch_id = NoId
           THEN \E done \in {convert(added.cache, added.conv, got.system)} :
                    IF done.raised
                    THEN /\ response' = [answer EXCEPT !.kind = "unhandled",
                                                       !.exc = "ValueError"]
                         /\ Stored(done.cache)
                         /\ fed' = fedAfter
                         /\ UNCHANGED closed
                    ELSE /\ response' = [answer EXCEPT
                                           !.kind = "result",
                                           !.result = done.result,
                                           !.converted = added.conv.data,
                                           !.fed = accepted,
                                           !.reconverted =
                                               (batch_id \in closed)]
                         /\ Stored(done.cache)
                         /\ fed' = IF batch_id \in BatchIds
                                   THEN [fed EXCEPT ![batch_id] = <<>>]
                                   ELSE fed
                         /\ closed' = IF batch_id \in BatchIds
                                      THEN closed \cup {batch_id}
                                      ELSE closed
           ELSE /\ response' = [answer EXCEPT !.kind = "status",
                                              !.id = added.conv.id,
                                              !.status = added.conv.status]
                /\ Stored(added.cache)
                /\ fed' = fedAfter
                /\ UNCHANGED closed

\* lines 391-403: the stored session when UnitConverter.load returns it (the
\* payload's base_system and base_unit are then not read); a new converter
\* when it raises ConverterLoadError, and then UnitConverterInitError leaves
\* the handler, where the except clause of line 401 does not apply
post(batch_id, user, key) ==
    \E loaded \in {UnitConverter_load(Cache(store, FALSE), batch_id,
                                      user, key)} :
        IF loaded.ok
        THEN \E eob \in BOOLEAN, data \in DataLists :
                post_data(loaded, batch_id, eob, data)
        ELSE \E base_system \in PayloadSystems, base_unit \in PayloadUnits :
             \E created \in {UnitConverter_init(base_system, base_unit,
                                                user, key, batch_id)} :
                IF ~created.ok
                THEN /\ response' = [NoResponse EXCEPT
                                       !.kind = "unhandled",
                                       !.id = batch_id,
                                       !.exc = "UnitConverterInitError"]
                     /\ UNCHANGED <<store, orphans, closed, fed>>
                ELSE \E eob \in BOOLEAN, data \in DataLists :
                        post_data(created, batch_id, eob, data)

ConvertView_post ==
    \/ \E batch_id \in BatchIds \cup {NoId}, caller \in Callers :
          /\ post(batch_id, caller.user, caller.key)
          /\ UNCHANGED <<customUnits, customDimensions, djsettings,
                         classAttrs, registries, lastOp>>
    \/ \* the payload fails UnitConversionPayloadSerializer
       /\ response' = [NoResponse EXCEPT !.kind = "400 payload"]
       /\ UNCHANGED <<store, orphans, closed, fed, customUnits,
                      customDimensions, djsettings, classAttrs, registries,
                      lastOp>>

(***************************************************************************)
(* Initial state                                                           *)
(***************************************************************************)
\* settings.py: the tables as shipped; ADDITIONAL_DIMENSIONS is keyed by the
\* codes of the dimensions
DefaultSettings ==
    [ADDITIONAL_DIMENSIONS |->
        [k \in {"[massic_heating_value]", "[volumic_heating_value]"} |->
            [relation |-> IF k = "[massic_heating_value]"
                          THEN "[energy]/[mass]" ELSE "[energy]/[volume]"]],
     ADDITIONAL_UNITS |-> <<>>,
     ADDITIONAL_BASE_UNITS |-> <<>>]

\* class UnitSystem: _additional_units = set(), dimensions_cache = {}, ...
ClassDefaults ==
    [additional_units |-> {}, additional_dimensions |-> {},
     dimensions_cache |-> {}, units_cache |-> {}]

NoRegistry == [built |-> FALSE]

NoOp == [op |-> "none", slot |-> 0, code |-> "", ok |-> TRUE]

InitialCustomUnits ==
    { [user |-> "alice", key |-> "k1", unit_system |-> "SI", code |-> "cu",
       relation |-> [coef |-> 3, ref |-> "meter"]] }

Init ==
    /\ store = [b \in BatchIds |-> Absent]
    /\ orphans = 0
    /\ response = NoResponse
    /\ closed = {}
    /\ fed = [b \in BatchIds |-> <<>>]
    /\ customUnits = InitialCustomUnits
    /\ customDimensions = {}
    /\ djsettings = DefaultSettings
    /\ classAttrs = ClassDefaults
    /\ registries = [i \in 1..MaxInstances |-> NoRegistry]
    /\ lastOp = NoOp

(***************************************************************************)
(* Operations on UnitSystem instances                                      *)
(***************************************************************************)
RegistrySystems == {"SI", "US", "zz"}
NewUnitCodes == {"nu"}
NewDimensionCodes == {"[nd]"}

ConverterState == <<store, orphans, response, closed, fed>>

\* a deployment that sets PHYSICS_ADDITIONAL_DIMENSIONS / _UNITS per system
OverriddenSettings ==
    [ADDITIONAL_DIMENSIONS |->
        [k \in {"SI"} |->
            [d \in {"[heat]"} |-> [relation |-> "[energy]/[mass]"]]],
     ADDITIONAL_UNITS |->
        [k \in {"SI"} |->
            [u \in {"furlong"} |->
                [relation |-> [coef |-> 201, ref |-> "meter"]]]],
     ADDITIONAL_BASE_UNITS |-> <<>>]

InitialCustomDimensions ==
    { [user |-> "alice", key |-> "k1", unit_system |-> "SI",
       code |-> "[cd]", relation |-> "[length]/[time]"] }

\* UnitSystem(...) with the loaded codes added to the class-level sets in
\* place (self._additional_units.update(added_units))
UnitSystem_new_shared(i, system_name, user, key) ==
    LET made == UnitSystem(system_name, user, key)
    IN  /\ ~registries[i].built
        /\ IF made.ok
           THEN /\ registries' =
                     [registries EXCEPT ![i] =
                         [built |-> TRUE] @@
                         [made.us EXCEPT !.additional_units = NotOwn,
                                         !.additional_dimensions = NotOwn]]
                /\ classAttrs' =
                     [classAttrs EXCEPT
                        !.additional_units = @ \cup
                            Eff(made.us.additional_units, {}),
                        !.additional_dimensions = @ \cup
                            Eff(made.us.additional_dimensions, {})]
           ELSE UNCHANGED <<registries, classAttrs>>
        /\ lastOp' = [NoOp EXCEPT !.op = "UnitSystem", !.slot = i,
                                  !.ok = made.ok]
        /\ UNCHANGED <<djsettings, customUnits, customDimensions>>

\* us = UnitSystem(system_name, user=user, key=key)
UnitSystem_new(i, system_name, user, key) ==
    LET made == UnitSystem(system_name, user, key)
    IN  /\ ~registries[i].built
        /\ IF made.ok
           THEN registries' =
                    [registries EXCEPT ![i] = [built |-> TRUE] @@ made.us]
           ELSE UNCHANGED registries
        /\ lastOp' = [NoOp EXCEPT !.op = "UnitSystem", !.slot = i,
                                  !.ok = made.ok]
        /\ UNCHANGED <<classAttrs, djsettings, customUnits, customDimensions>>

\* UnitSystem.add_unit: ureg.define, then _rebuild_cache
add_unit(i, code, relation) ==
    /\ registries[i].built
    /\ registries' =
          [registries EXCEPT ![i] =
              rebuild_cache([@ EXCEPT !.defs = [k \in {code} |-> relation] @@ @])]
    /\ lastOp' = [NoOp EXCEPT !.op = "add_unit", !.slot = i, !.code = code]
    /\ UNCHANGED <<classAttrs, djsettings, customUnits, customDimensions>>

\* UnitSystem.add_dimension: ureg.define, then _rebuild_cache
add_dimension(i, code) ==
    /\ registries[i].built
    /\ registries' =
          [registries EXCEPT ![i] =
              rebuild_cache([@ EXCEPT !.dims = @ \cup {code}])]
    /\ lastOp' = [NoOp EXCEPT !.op = "add_dimension", !.slot = i,
                              !.code = code]
    /\ UNCHANGED <<classAttrs, djsettings, customUnits, customDimensions>>

Construct ==
    \E i \in 1..MaxInstances, system_name \in RegistrySystems,
       caller \in Callers :
        /\ UnitSystem_new(i, system_name, caller.user, caller.key)
        /\ UNCHANGED ConverterState

AddUnit ==
    \E i \in 1..MaxInstances, code \in NewUnitCodes :
        /\ add_unit(i, code, [coef |-> 2, ref |-> "meter"])
        /\ UNCHANGED ConverterState

AddDimension ==
    \E i \in 1..MaxInstances, code \in NewDimensionCodes :
        /\ add_dimension(i, code)
        /\ UNCHANGED ConverterState

InitReg ==
    /\ store = [b \in BatchIds |-> Absent]
    /\ orphans = 0
    /\ response = NoResponse
    /\ closed = {}
    /\ fed = [b \in BatchIds |-> <<>>]
    /\ customUnits = InitialCustomUnits
    /\ customDimensions = InitialCustomDimensions
    /\ djsettings \in {DefaultSettings, OverriddenSettings}
    /\ classAttrs = ClassDefaults
    /\ registries = [i \in 1..MaxInstances |-> NoRegistry]
    /\ lastOp = NoOp

NextReg == Construct \/ AddUnit \/ AddDimension

(***************************************************************************)
(* Opening a registry over stored rows and settings tables                 *)
(***************************************************************************)
\* request.user of a request without authentication
AnonymousUser == "AnonymousUser"

RegistryCallers ==
    { [user |-> NoUser, key |-> NoKey],
      [user |-> AnonymousUser, key |-> NoKey],
      [user |-> "alice", key |-> "k1"],
      [user |-> "alice", key |-> NoKey],
      [user |-> "bob", key |-> "k1"],
      [user |-> "root", key |-> NoKey],
      [user |-> "root", key |-> "k1"] }

OpenedSystems == {"SI", "si", "US", "zz"}

\* rows of CustomUnit: two keys of alice, a row without key whose code a
\* deployment later names in ADDITIONAL_UNITS, the code of alice taken by
\* bob too, a row of another system
StoredCustomUnits ==
    { [user |-> "alice", key |-> "k1", unit_system |-> "SI", code |-> "cu",
       relation |-> [coef |-> 3, ref |-> "meter"]],
      [user |-> "alice", key |-> "k2", unit_system |-> "SI", code |-> "cu2",
       relation |-> [coef |-> 2, ref |-> "meter"]],
      [user |-> "alice", key |-> NoKey, unit_system |-> "SI",
       code |-> "furlong", relation |-> [coef |-> 5, ref |-> "meter"]],
      [user |-> "bob", key |-> "k1", unit_system |-> "SI", code |-> "cu",
       relation |-> [coef |-> 7, ref |-> "meter"]],
      [user |-> "alice", key |-> "k1", unit_system |-> "US", code |-> "cus",
       relation |-> [coef |-> 2, ref |-> "foot"]] }

\* rows of CustomDimension
StoredCustomDimensions ==
    { [user |-> "alice", key |-> "k1", unit_system |-> "SI",
       code |-> "[cd]", relation |-> "[length]/[time]"],
      [user |-> "bob", key |-> NoKey, unit_system |-> "SI",
       code |-> "[heat]", relation |-> "[length]/[mass]"],
      [user |-> "alice", key |-> "k2", unit_system |-> "US",
       code |-> "[cd2]", relation |-> "[mass]/[time]"] }

\* tables that name codes the registry already has: a dimension of pint, a
\* member of the system, a prefixed unit, a unit of ADDITIONAL_BASE_UNITS
ConflictingSettings ==
    [ADDITIONAL_DIMENSIONS |->
        [k \in {"SI"} |->
            [d \in {"[length]", "[heat]"} |->
                [relation |-> IF d = "[length]" THEN "[mass]/[time]"
                              ELSE "[energy]/[mass]"]]],
     ADDITIONAL_UNITS |->
        [k \in {"SI"} |->
            [u \in {"meter", "kilometer", "furlong", "chain"} |->
                [relation |-> [coef |-> 201,
                               ref |-> IF u = "meter" THEN "foot"
                                       ELSE "meter"]]]],
     ADDITIONAL_BASE_UNITS |->
        [k \in {"SI"} |->
            [u \in {"furlong"} |->
                [relation |-> [coef |-> 100, ref |-> "meter"]]]]]

\* tables with one relation that does not parse, next to ones that do
BrokenDimensionSettings ==
    [ADDITIONAL_DIMENSIONS |->
        [k \in {"SI"} |->
            [d \in {"[heat]", "[bad]"} |->
                [relation |-> IF d = "[bad]" THEN "[length])"
                              ELSE "[energy]/[mass]"]]],
     ADDITIONAL_UNITS |->
        [k \in {"SI"} |->
            [u \in {"furlong"} |->
                [relation |-> [coef |-> 201, ref |-> "meter"]]]],
     ADDITIONAL_BASE_UNITS |-> <<>>]

BrokenUnitSettings ==
    [ADDITIONAL_DIMENSIONS |->
        [k \in {"SI"} |->
            [d \in {"[heat]"} |-> [relation |-> "[energy]/[mass]"]]],
     ADDITIONAL_UNITS |->
        [k \in {"SI"} |->
            [u \in {"furlong", "badunit"} |->
                [relation |-> [coef |-> 201,
                               ref |-> IF u = "badunit" THEN "meter)"
                                       ELSE "meter"]]]],
     ADDITIONAL_BASE_UNITS |-> <<>>]

SettingsTables ==
    {DefaultSettings, OverriddenSettings, ConflictingSettings,
     BrokenDimensionSettings, BrokenUnitSettings}

\* us = UnitSystem(system_name, user=user, key=key), us being rebound
Open ==
    \E system_name \in OpenedSystems, caller \in RegistryCallers :
    \E made \in {UnitSystem(system_name, caller.user, caller.key)} :
        /\ registries' =
              [registries EXCEPT ![1] =
                  IF made.ok THEN [built |-> TRUE] @@ made.us
                  ELSE NoRegistry]
        /\ lastOp' = [op |-> "UnitSystem", slot |-> 1, code |-> "",
                      ok |-> made.ok, exc |-> made.exc,
                      system_name |-> system_name,
                      user |-> caller.user, key |-> caller.key]
        /\ UNCHANGED <<classAttrs, djsettings, customUnits, customDimensions>>
        /\ UNCHANGED ConverterState

InitLoad ==
    /\ store = [b \in BatchIds |-> Absent]
    /\ orphans = 0
    /\ response = NoResponse
    /\ closed = {}
    /\ fed = [b \in BatchIds |-> <<>>]
    /\ customUnits \in {{}, InitialCustomUnits, StoredCustomUnits}
    /\ customDimensions \in {{}, StoredCustomDimensions}
    /\ djsettings \in SettingsTables
    /\ classAttrs = ClassDefaults
    /\ registries = [i \in 1..MaxInstances |-> NoRegistry]
    /\ lastOp = NoOp

NextLoad == Open

SpecLoad == InitLoad /\ [][NextLoad]_vars

SpecReg == InitReg /\ [][NextReg]_vars

Next == ConvertView_post

Spec == Init /\ [][Next]_vars

(***************************************************************************)
(* Admission of custom units and custom dimensions                         *)
(***************************************************************************)
\* rows the two stores hold together, at most
MaxRows == 3

\* str.replace('-', '_') on the codes the model uses
Underscored(code) == IF code = "c-u" THEN "c_u" ELSE code

\* CustomDimension.save, lines 1055-1059: '-' replaced, brackets added
BracketedCode(code) ==
    CASE code = "speedy" -> "[speedy]"
      [] code = "my-dim" -> "[my_dim]"
      [] OTHER -> code

\* re.findall('(?P<dim>\[\w+\])', relation), in the order of the relation
DimensionRefs(relation) ==
    CASE relation = "[length]" -> <<"[length]">>
      [] relation = "[length]/[time]" -> <<"[length]", "[time]">>
      [] relation = "[length] / [time]" -> <<"[length]", "[time]">>
      [] relation = "[mass]/[time]" -> <<"[mass]", "[time]">>
      [] relation = "[length]/[mass]" -> <<"[length]", "[mass]">>
      [] relation = "[bogus]/[time]" -> <<"[bogus]", "[time]">>
      [] relation = "[length])" -> <<"[length]">>
      [] OTHER -> <<>>

\* str() of the dimensionality pint computes for the relation of a dimension
DimensionalityOf(relation) ==
    CASE relation = "[length]/[time]" -> "[length] / [time]"
      [] relation = "[mass]/[time]" -> "[mass] / [time]"
      [] relation = "[length]/[mass]" -> "[length] / [mass]"
      [] relation = "[energy]/[mass]" -> "[energy] / [mass]"
      [] OTHER -> relation

\* Dimension.dimensionality: ureg.get_dimensionality(code), through the
\* definition the registry loaded for the code
Dimension_dimensionality(dimensions, us, code) ==
    LET qs == CustomRows(dimensions, us, us.user, us.key)
    IN  IF code \in BuiltinDimensions THEN code
        ELSE IF \E r \in qs : r.code = code
        THEN DimensionalityOf((CHOOSE r \in qs : r.code = code).relation)
        ELSE IF /\ us.system_name \in DOMAIN djsettings.ADDITIONAL_DIMENSIONS
                /\ code \in DOMAIN djsettings.ADDITIONAL_DIMENSIONS[us.system_name]
        THEN DimensionalityOf(
                djsettings.ADDITIONAL_DIMENSIONS[us.system_name][code].relation)
        ELSE code

\* `unit in unit_names` at line 552: unit is a key of the prefix table, a
\* str, and unit_names holds the Unit objects of line 583. Unit defines no
\* __eq__, so the str equals none of them.
KeyInUnits(unit, unit_names) == FALSE

\* Dimension._prefixed_units: us.unit(prefix + unit) for every prefix of every
\* key of the table found in unit_names
Dimension_prefixed_units(us, unit_names) ==
    { UnitSystem_unit(us, x[1] \o x[2]).value :
        x \in { y \in PintPrefixes \X DOMAIN PREFIXED_UNITS_DISPLAY :
                  /\ KeyInUnits(y[2], unit_names)
                  /\ \E i \in 1..Len(PREFIXED_UNITS_DISPLAY[y[2]]) :
                        PREFIXED_UNITS_DISPLAY[y[2]][i] = y[1] } }

\* lines 575-589: a Unit for every name of the dimensional equivalents of the
\* dimension, the names of UnitNotFound left out
Dimension_unit_names(dimensions, us, code) ==
    { u \in dimensional_equivalents(us,
                Dimension_dimensionality(dimensions, us, code)) :
        Unit_init(us, u).returned }

\* [u.code for u in dim.units] of a named dimension: the units of the
\* equivalents and what _prefixed_units adds
Dimension_units(dimensions, us, code) ==
    Dimension_unit_names(dimensions, us, code) \cup
    Dimension_prefixed_units(us, Dimension_unit_names(dimensions, us, code))

\* the codes dim.units holds more than one Unit of: set() at line 591 drops
\* no Unit, Unit defining no __hash__ and no __eq__, so a code is twice in
\* the list when _prefixed_units adds a code the equivalents hold
Dimension_units_twice(dimensions, us, code) ==
    Dimension_unit_names(dimensions, us, code) \cap
    Dimension_prefixed_units(us, Dimension_unit_names(dimensions, us, code))

\* the outcome of a save(): the exception that leaves it ("" when it
\* returns), its message, the rows of the table afterwards. The save
\* methods take the rows of CustomUnit.objects and CustomDimension.objects at
\* the call as units and dimensions.
Saved(exc, text, ref, rows, code) ==
    [exc |-> exc, text |-> text, ref |-> ref, rows |-> rows, code |-> code]

\* models.Model.save of a new instance: INSERT, refused by the database when
\* a row has the same (user, key, code) with a key (unique_together; rows
\* without key never collide). Rows carry no id: two rows equal in every
\* field are one row here.
Model_save(rows, row) ==
    IF \E r \in rows : /\ r.user = row.user /\ r.key = row.key
                       /\ r.key # NoKey /\ r.code = row.code
    THEN Saved("IntegrityError", "", "", rows, row.code)
    ELSE Saved("", "", "", rows \cup {row}, row.code)

\* UnitSystem.add_unit on a registry value: ureg.define raises ValueError for
\* a relation that does not parse, else the unit is defined and the cache rebuilt
UnitSystem_add_unit(us, code, relation) ==
    IF ~UnitRelationParses(relation) THEN [us EXCEPT !.exc = "ValueError"]
    ELSE rebuild_cache([us EXCEPT !.defs = [k \in {code} |-> relation] @@ @])

\* UnitSystem.add_dimension on a registry value
UnitSystem_add_dimension(us, code, relation) ==
    IF ~DimensionRelationParses(relation) THEN [us EXCEPT !.exc = "ValueError"]
    ELSE rebuild_cache([us EXCEPT !.dims = @ \cup {code}])

\* CustomUnit.save with the row written first
CustomUnit_save_written_first(units, made, cu) ==
    LET code == Underscored(cu.code)
        row == [cu EXCEPT !.code = code]
        rows == units \cup {row}
    IN  IF ~made.ok THEN Saved(made.exc, "", "", units, code)
        ELSE IF code \in available_unit_names(made.us)
        THEN Saved("UnitDuplicateError", "", "", rows, code)
        ELSE LET us == UnitSystem_add_unit(made.us, code, cu.relation)
             IN  IF us.exc # ""
                 THEN Saved("UnitValueError", "", "", rows, code)
                 ELSE IF ~UnitFound(us, code)
                 THEN Saved("UnitDimensionError", "", "", rows, code)
                 ELSE Model_save(units, row)

\* CustomUnit.save, lines 1121-1145, made being what line 1125 builds,
\* UnitSystem(system_name=self.unit_system): a registry without user and key
CustomUnit_save(units, made, cu) ==
    LET code == Underscored(cu.code)
        row == [cu EXCEPT !.code = code]
    IN  IF ~made.ok THEN Saved(made.exc, "", "", units, code)
        ELSE IF code \in available_unit_names(made.us)
        THEN Saved("UnitDuplicateError", "", "", units, code)
        ELSE LET us == UnitSystem_add_unit(made.us, code, cu.relation)
             IN  IF us.exc # ""
                 THEN Saved("UnitValueError", "", "", units, code)
                 ELSE IF ~UnitFound(us, code)
                 THEN Saved("UnitDimensionError", "", "", units, code)
                 ELSE Model_save(units, row)

\* validate_dimensions that does not look the references up
validate_dimensions_unchecked(made, cd) ==
    [ok |-> TRUE, text |-> "", ref |-> ""]

\* CustomDimension.validate_dimensions, lines 1022-1045: every bracketed
\* reference is looked up in a registry of the owner built anew (lines
\* 1027-1029, from the rows and arguments save() built made from); the first
\* one not found is named. The references looked up here have units, so the
\* relation with units in their place is a quantity.
validate_dimensions(made, cd) ==
    LET refs == DimensionRefs(cd.relation)
        missing == { i \in 1..Len(refs) : ~DimensionFound(made.us, refs[i]) }
    IN  IF missing # {}
        THEN [ok |-> FALSE, text |-> "Dimension not found",
              ref |-> refs[CHOOSE i \in missing : \A j \in missing : i <= j]]
        ELSE [ok |-> TRUE, text |-> "", ref |-> ""]

\* CustomDimension.save without the two tests on the names
CustomDimension_save_unchecked(dimensions, made, cd) ==
    LET code == BracketedCode(cd.code)
        row == [cd EXCEPT !.code = code]
    IN  IF ~made.ok THEN Saved(made.exc, "", "", dimensions, code)
        ELSE LET us == UnitSystem_add_dimension(made.us, code, cd.relation)
                 valid == validate_dimensions(made, row)
             IN  IF us.exc # ""
                 THEN Saved("DimensionValueError", "", "",
                            dimensions, code)
                 ELSE IF ~valid.ok
                 THEN Saved("DimensionDimensionError", valid.text, valid.ref,
                            dimensions, code)
                 ELSE Model_save(dimensions, row)

\* CustomDimension.save, lines 1047-1075, made being what lines 1051-1055
\* build, UnitSystem(self.unit_system, user=self.user, key=self.key)
CustomDimension_save(dimensions, made, cd) ==
    LET code == BracketedCode(cd.code)
        row == [cd EXCEPT !.code = code]
    IN  IF ~made.ok THEN Saved(made.exc, "", "", dimensions, code)
        ELSE IF cd.relation \in available_dimension_names(made.us)
        THEN Saved("DimensionDuplicateError", "relation already exist", "",
                   dimensions, code)
        ELSE IF code \in available_dimension_names(made.us)
        THEN Saved("DimensionDuplicateError", "Dimension code already exists",
                   "", dimensions, code)
        ELSE LET us == UnitSystem_add_dimension(made.us, code, cd.relation)
                 valid == validate_dimensions(made, row)
             IN  IF us.exc # ""
                 THEN Saved("DimensionValueError", "", "",
                            dimensions, code)
                 ELSE IF ~valid.ok
                 THEN Saved("DimensionDimensionError", valid.text, valid.ref,
                            dimensions, code)
                 ELSE Model_save(dimensions, row)

\* what CustomUnitViewSet.create leaves: the statuses the response can have,
\* the exception behind it, its text, the rows of the two tables, whether
\* cu.save() returned
Answered(status, exc, text, units, dimensions, saved, code) ==
    [status |-> status, exc |-> exc, text |-> text, units |-> units,
     dimensions |-> dimensions, saved |-> saved, code |-> code]

\* CustomUnitViewSet.create, lines 629-700, for a form that is valid:
\* checked is the UnitSystem(...) of line 638, saved the outcome of cu.save()
\* (line 655), made the UnitSystem(...) of line 659, which is also what
\* CustomDimension.save builds from the same rows, system, user and key.
\* units/exceptions.py is not in the sources: whether UnitDuplicateError and
\* UnitDimensionError are ValueErrors, which line 656 catches, is open, and
\* the response is 400 or a server error.
CustomUnitViewSet_create(units, dimensions, checked, saved, made, cu, dim_name) ==
    LET user == cu.user
        key == cu.key
        system_name == cu.unit_system
        code == cu.code
        row == [cu EXCEPT !.code = saved.code]
        us == made.us
        created ==
            CustomDimension_save(dimensions, made,
                [user |-> user, key |-> key, unit_system |-> system_name,
                 code |-> dim_name,
                 relation |-> UnitInfo(us, saved.code, ResolveFuel).dim])
    IN  IF checked.exc = "UnitSystemNotFound"
        THEN Answered({400}, checked.exc, "Invalid unit system",
                      units, dimensions, FALSE, code)
        ELSE IF checked.exc # ""
        THEN Answered({500}, checked.exc, "", units, dimensions, FALSE, code)
        ELSE IF user \notin Users \cup Superusers
        THEN Answered({403}, "", "", units, dimensions, FALSE, code)
        ELSE IF \E r \in units :
                    r.code = code /\ r.user = user /\ r.key = key
        THEN Answered({409}, "", "Custom unit already exists",
                      units, dimensions, FALSE, code)
        ELSE IF saved.exc = "UnitValueError"
        THEN Answered({400}, saved.exc, "", saved.rows, dimensions, FALSE,
                      saved.code)
        ELSE IF saved.exc \in {"UnitDuplicateError", "UnitDimensionError"}
        THEN Answered({400, 500}, saved.exc, "", saved.rows, dimensions,
                      FALSE, saved.code)
        ELSE IF saved.exc # ""
        THEN Answered({500}, saved.exc, "", saved.rows, dimensions, FALSE,
                      saved.code)
        ELSE IF made.exc # ""
        THEN Answered({500}, made.exc, "", saved.rows, dimensions, TRUE,
                      saved.code)
        ELSE IF dim_name = ""
        THEN Answered({201}, "", "", saved.rows, dimensions, TRUE, saved.code)
        ELSE IF dim_name \in available_dimension_names(us)
        THEN IF ~DimensionFound(us, dim_name)
             THEN Answered({400}, "DimensionNotFound", "Invalid dimension",
                           saved.rows \ {row}, dimensions, TRUE, saved.code)
             ELSE IF saved.code \notin Dimension_units(dimensions, us, dim_name)
             THEN Answered({400}, "", "Incoherent unit and dimension",
                           saved.rows, dimensions, TRUE, saved.code)
             ELSE Answered({201}, "", "", saved.rows, dimensions, TRUE,
                           saved.code)
        ELSE IF ~UnitFound(us, saved.code)
        THEN Answered({500}, "AttributeError", "", saved.rows, dimensions,
                      TRUE, saved.code)
        ELSE IF created.exc # ""
        THEN Answered({500}, created.exc, created.text, saved.rows,
                      dimensions, TRUE, saved.code)
        ELSE Answered({201}, "", "", saved.rows, created.rows, TRUE,
                      saved.code)

\* who saves and posts, and what they submit
Owners ==
    { [user |-> "alice", key |-> "k1"],
      [user |-> "bob", key |-> "k1"] }

AdmissionCallers == Owners \cup {[user |-> AnonymousUser, key |-> NoKey]}

AdmissionSystems == {"SI", "si", "zz"}

\* a new code, the code of the custom unit of alice, a unit of the system
SubmittedUnitCodes == {"c-u", "cu", "meter"}

\* a plain length, a speed, a multiple of the custom unit of alice, a
\* relation that does not parse
SubmittedUnitRelations ==
    { [coef |-> 3, ref |-> "meter"],
      [coef |-> 2, ref |-> "knot"],
      [coef |-> 2, ref |-> "cu"],
      [coef |-> 2, ref |-> "meter)"] }

\* request.data.get('dimension'): absent, registered, not registered
SubmittedDimensionNames == {"", "[mass]", "[length]", "speedy"}

SubmittedDimensionCodes == {"my-dim", "[length]", "[cd]"}

SubmittedDimensionRelations ==
    {"[length]/[time]", "[length]", "[bogus]/[time]", "[length])"}

RowsFit == Cardinality(customUnits) + Cardinality(customDimensions) < MaxRows

RegistryState == <<registries, classAttrs, djsettings>>

\* CustomUnit(user=..., key=..., unit_system=..., code=..., relation=...).save()
SaveCustomUnit ==
    /\ RowsFit
    /\ \E owner \in Owners, system_name \in AdmissionSystems,
          code \in SubmittedUnitCodes, relation \in SubmittedUnitRelations :
       \E made \in {UnitSystem_of(customUnits, customDimensions,
                                  system_name, NoUser, NoKey)} :
       \E out \in {CustomUnit_save(customUnits, made,
                     [user |-> owner.user, key |-> owner.key,
                      unit_system |-> system_name, code |-> code,
                      relation |-> relation])} :
          /\ customUnits' = out.rows
          /\ lastOp' = [op |-> "CustomUnit.save", slot |-> 0,
                        code |-> out.code, ok |-> out.exc = "",
                        exc |-> out.exc, text |-> out.text, ref |-> out.ref,
                        user |-> owner.user, key |-> owner.key,
                        system_name |-> system_name, relation |-> relation,
                        dimension |-> "", status |-> 0, saved |-> out.exc = ""]
          /\ UNCHANGED customDimensions
    /\ UNCHANGED RegistryState
    /\ UNCHANGED ConverterState

\* CustomDimension(user=..., key=..., unit_system=..., code=..., relation=...).save()
SaveCustomDimension ==
    /\ RowsFit
    /\ \E owner \in Owners, system_name \in AdmissionSystems,
          code \in SubmittedDimensionCodes,
          relation \in SubmittedDimensionRelations :
       \E made \in {UnitSystem_of(customUnits, customDimensions,
                                  system_name, owner.user, owner.key)} :
       \E out \in {CustomDimension_save(customDimensions, made,
                     [user |-> owner.user, key |-> owner.key,
                      unit_system |-> system_name, code |-> code,
                      relation |-> relation])} :
          /\ customDimensions' = out.rows
          /\ lastOp' = [op |-> "CustomDimension.save", slot |-> 0,
                        code |-> out.code, ok |-> out.exc = "",
                        exc |-> out.exc, text |-> out.text, ref |-> out.ref,
                        user |-> owner.user, key |-> owner.key,
                        system_name |-> system_name, relation |-> relation,
                        dimension |-> "", status |-> 0, saved |-> out.exc = ""]
          /\ UNCHANGED customUnits
    /\ UNCHANGED RegistryState
    /\ UNCHANGED ConverterState

\* POST of a custom unit, with or without the name of a dimension
CreateCustomUnit ==
    /\ RowsFit
    /\ \E caller \in AdmissionCallers, system_name \in AdmissionSystems,
          code \in SubmittedUnitCodes, relation \in SubmittedUnitRelations,
          dim_name \in SubmittedDimensionNames :
       \E checked \in {UnitSystem_of(customUnits, customDimensions,
                                     system_name, caller.user, caller.key)} :
       \E plain \in {UnitSystem_of(customUnits, customDimensions,
                                   system_name, NoUser, NoKey)} :
       \E saved \in {CustomUnit_save(customUnits, plain,
                       [user |-> caller.user, key |-> caller.key,
                        unit_system |-> system_name, code |-> code,
                        relation |-> relation])} :
       \E made \in {UnitSystem_of(saved.rows, customDimensions,
                                  system_name, caller.user, caller.key)} :
       \E out \in {CustomUnitViewSet_create(customUnits, customDimensions,
                     checked, saved, made,
                     [user |-> caller.user, key |-> caller.key,
                      unit_system |-> system_name, code |-> code,
                      relation |-> relation], dim_name)} :
       \E status \in out.status :
          /\ customUnits' = out.units
          /\ customDimensions' = out.dimensions
          /\ lastOp' = [op |-> "CustomUnitViewSet.create", slot |-> 0,
                        code |-> out.code, ok |-> status = 201,
                        exc |-> out.exc, text |-> out.text, ref |-> "",
                        user |-> caller.user, key |-> caller.key,
                        system_name |-> system_name, relation |-> relation,
                        dimension |-> dim_name, status |-> status,
                        saved |-> out.saved]
    /\ UNCHANGED RegistryState
    /\ UNCHANGED ConverterState

InitAdm ==
    /\ store = [b \in BatchIds |-> Absent]
    /\ orphans = 0
    /\ response = NoResponse
    /\ closed = {}
    /\ fed = [b \in BatchIds |-> <<>>]
    /\ customUnits = InitialCustomUnits
    /\ customDimensions = InitialCustomDimensions
    /\ djsettings = OverriddenSettings
    /\ classAttrs = ClassDefaults
    /\ registries = [i \in 1..MaxInstances |-> NoRegistry]
    /\ lastOp = NoOp

NextAdm == SaveCustomUnit \/ SaveCustomDimension \/ CreateCustomUnit

SpecAdm == InitAdm /\ [][NextAdm]_vars

(***************************************************************************)
(* Converter objects and their save()                                      *)
(***************************************************************************)
\* uc = UnitConverter(base_system, base_unit, user, key, id): the object with
\* its registry and its unit, which lastOp holds between the calls
UnitConverter_object(created) ==
    created.conv @@ [system |-> created.system, unit |-> created.conv.base_unit]

\* self.system = None
NoSystem == [none |-> TRUE]

\* UnitConverter.save, lines 905-911, raises telling whether the write of
\* BaseConverter.save to the store raises: the references are set to None,
\* the object is handed to the store, and the two assignments after the call
\* run only when the call returns
UnitConverter_save(cache, uc, raises) ==
    LET handed == [uc EXCEPT !.system = NoSystem, !.unit = None]
    IN  IF raises
        THEN [raised |-> TRUE, cache |-> cache, uc |-> handed,
              handed |-> handed]
        ELSE [raised |-> FALSE, cache |-> BaseConverter_save(cache, handed),
              uc |-> [handed EXCEPT !.system = uc.system, !.unit = uc.unit],
              handed |-> handed]

\* uc = UnitConverter(...)
NewUnitConverter ==
    \E batch_id \in BatchIds \cup {NoId}, caller \in Callers,
       base_system \in PayloadSystems, base_unit \in PayloadUnits :
        /\ \E created \in {UnitConverter_init(base_system, base_unit,
                                              caller.user, caller.key,
                                              batch_id)} :
              lastOp' = IF created.ok
                        THEN [op |-> "UnitConverter", slot |-> 0,
                              code |-> base_unit, ok |-> TRUE,
                              uc |-> UnitConverter_object(created)]
                        ELSE [op |-> "UnitConverterInitError", slot |-> 0,
                              code |-> base_unit, ok |-> FALSE]
        /\ UNCHANGED <<registries, classAttrs, djsettings, customUnits,
                       customDimensions>>
        /\ UNCHANGED ConverterState

\* uc.save() on the converter at hand
SaveUnitConverter ==
    \E raises \in BOOLEAN :
        /\ lastOp.op \in {"UnitConverter", "save", "add_data"}
        /\ lastOp.uc.system # NoSystem
        /\ \E out \in {UnitConverter_save(Cache(store, FALSE), lastOp.uc,
                                          raises)} :
              /\ Fits(out.cache)
              /\ Stored(out.cache)
              /\ lastOp' = [op |-> "save", slot |-> 0, code |-> lastOp.code,
                            ok |-> ~out.raised, uc |-> out.uc,
                            before |-> lastOp.uc, handed |-> out.handed]
        /\ UNCHANGED <<response, closed, fed>>
        /\ UNCHANGED <<registries, classAttrs, djsettings, customUnits,
                       customDimensions>>

\* errors = uc.add_data(data) on the converter at hand: check_data, the
\* status, then self.save()
AddDataUnitConverter ==
    \E raises \in BOOLEAN, data \in DataLists :
        /\ lastOp.op \in {"UnitConverter", "save", "add_data"}
        /\ lastOp.uc.system # NoSystem
        /\ data # <<>>
        /\ Len(lastOp.uc.data) + Len(data) <= MaxAccum
        /\ \E checked \in {[check_data(lastOp.uc, data).conv
                              EXCEPT !.status = "ACCUMULATING"]} :
           \E out \in {UnitConverter_save(Cache(store, FALSE), checked,
                                          raises)} :
              /\ Fits(out.cache)
              /\ Stored(out.cache)
              /\ lastOp' = [op |-> "add_data", slot |-> 0,
                            code |-> lastOp.code, ok |-> ~out.raised,
                            uc |-> out.uc, before |-> checked,
                            handed |-> out.handed]
        /\ UNCHANGED <<response, closed, fed>>
        /\ UNCHANGED <<registries, classAttrs, djsettings, customUnits,
                       customDimensions>>

InitSave == Init

NextSave == NewUnitConverter \/ SaveUnitConverter \/ AddDataUnitConverter

SpecSave == InitSave /\ [][NextSave]_vars

(***************************************************************************)
(* Lookups on built registries                                             *)
(***************************************************************************)
\* codes looked up: dimensions of pint, of the settings, of alice, added by
\* add_dimension, the two pseudo-dimensions, a code no registry has
LookedUpDimensions ==
    {"[length]", "[heat]", "[cd]", "[nd]", "[compounded]", "[custom]",
     "[bogus]"}

\* unit codes looked up: a member of the system, a prefixed code, the custom
\* unit of alice, the unit add_unit adds, a code pint cannot resolve, no code
LookedUpUnits == {"meter", "kilometer", "cu", "nu", "bogus", ""}

\* unit = us.unit(code)
GetUnit ==
    \E i \in 1..MaxInstances, code \in LookedUpUnits :
        /\ registries[i].built
        /\ \E out \in {UnitSystem_unit(registries[i], code)} :
              lastOp' = [op |-> "unit", slot |-> i, code |-> code,
                         ok |-> out.returned, exc |-> out.exc,
                         value |-> out.value]
        /\ UNCHANGED <<registries, classAttrs, djsettings, customUnits,
                       customDimensions>>
        /\ UNCHANGED ConverterState

\* dim = Dimension(unit_system=us, code=code)
NewDimension ==
    \E i \in 1..MaxInstances, code \in LookedUpDimensions :
        /\ registries[i].built
        /\ lastOp' = [op |-> "Dimension", slot |-> i, code |-> code,
                      ok |-> DimensionFound(registries[i], code),
                      exc |-> IF DimensionFound(registries[i], code) THEN ""
                              ELSE "DimensionNotFound"]
        /\ UNCHANGED <<registries, classAttrs, djsettings, customUnits,
                       customDimensions>>
        /\ UNCHANGED ConverterState

\* unit.unit.compatible_units(): the equivalents of the dimensionality of the
\* unit that are members of the default system of the registry, the set
\* dir(system) lists
pint_compatible_units(us, code) ==
    dimensional_equivalents(us, UnitInfo(us, code, ResolveFuel).dim)
        \cap SystemMembers(us.system_name)

\* UnitViewset.compatible_units, lines 344-365, made being UnitSystem(...) of
\* the request: 404 for an unknown system; an exception the view does not
\* catch (the ValueError of a define, the AttributeError of unit.unit on None)
\* answers 500; else the units us.unit gives for the compatible codes. The
\* order of the answer is left out.
UnitViewset_compatible_units(made, unit_name) ==
    IF made.exc = "UnitSystemNotFound" THEN [status |-> 404, units |-> {}]
    ELSE IF ~made.ok THEN [status |-> 500, units |-> {}]
    ELSE IF UnitSystem_unit(made.us, unit_name).value = None
    THEN [status |-> 500, units |-> {}]
    ELSE [status |-> 200,
          units |-> { UnitSystem_unit(made.us, cunit).value :
                        cunit \in pint_compatible_units(made.us, unit_name) }]

\* GET /units/<system_name>/units/<unit_name>/compatible/
CompatibleUnits ==
    \E system_name \in RegistrySystems, caller \in Callers,
       unit_name \in LookedUpUnits :
        /\ \E made \in {UnitSystem(system_name, caller.user, caller.key)} :
              \E out \in {UnitViewset_compatible_units(made, unit_name)} :
                 lastOp' = [op |-> "compatible_units", slot |-> 0,
                            code |-> unit_name, ok |-> out.status = 200,
                            status |-> out.status, units |-> out.units,
                            system_name |-> system_name,
                            user |-> caller.user, key |-> caller.key]
        /\ UNCHANGED <<registries, classAttrs, djsettings, customUnits,
                       customDimensions>>
        /\ UNCHANGED ConverterState

\* units = Dimension(unit_system=us, code=code).units, code a named dimension
DimensionUnits ==
    \E i \in 1..MaxInstances,
       code \in LookedUpDimensions \ {"[compounded]", "[custom]"} :
        /\ registries[i].built
        /\ DimensionFound(registries[i], code)
        /\ lastOp' = [op |-> "units", slot |-> i, code |-> code, ok |-> TRUE,
                      units |-> Dimension_units(customDimensions,
                                                registries[i], code),
                      twice |-> Dimension_units_twice(customDimensions,
                                                      registries[i], code)]
        /\ UNCHANGED <<registries, classAttrs, djsettings, customUnits,
                       customDimensions>>
        /\ UNCHANGED ConverterState

\* units/__init__.py: PREFIX_SYMBOL, the symbol of a prefix, no prefix
\* having the empty symbol
PREFIX_SYMBOL ==
    [p \in {""} \cup PintPrefixes |->
        CASE p = "micro" -> "u"
          [] p = "milli" -> "m"
          [] p = "centi" -> "c"
          [] p = "kilo" -> "k"
          [] OTHER -> ""]

\* units/__init__.py: UNIT_EXTENDED_DEFINITION, name and symbol of the base
\* codes
UNIT_EXTENDED_DEFINITION ==
    [meter |-> [name |-> "meter", symbol |-> "m"],
     gram |-> [name |-> "gram", symbol |-> "g"],
     second |-> [name |-> "second", symbol |-> "s"],
     degC |-> [name |-> "degree Celsius", symbol |-> "C"]]

\* codes names and symbols are asked for: base codes of the table, prefixed
\* codes of PREFIXED_UNITS_DISPLAY, a base code with a prefix its entry does
\* not list, a prefixed code whose base the table of names lacks, codes it
\* lacks, no code
LabelledCodes ==
    {"meter", "kilometer", "kilogram", "gram", "microsecond", "degC",
     "kilosecond", "kilodegC", "milliampere", "ampere", "cu", "bogus", ""}

\* Unit.base_unit: (base, prefix) when the code is prefix + base for a prefix
\* the table lists for the base, else the code itself without prefix
Unit_base_unit(unit_str) ==
    LET found == { x \in (DOMAIN PREFIXED_UNITS_DISPLAY) \X PintPrefixes :
                     /\ \E i \in 1..Len(PREFIXED_UNITS_DISPLAY[x[1]]) :
                           PREFIXED_UNITS_DISPLAY[x[1]][i] = x[2]
                     /\ unit_str = x[2] \o x[1] }
    IN  IF found = {} THEN <<unit_str, "">> ELSE CHOOSE x \in found : TRUE

\* Unit.unit_name: the prefix and the name of the base code; the code as given
\* when the table has no entry for the base (TypeError on None['name'])
Unit_unit_name(unit_str) ==
    IF Unit_base_unit(unit_str)[1] \in DOMAIN UNIT_EXTENDED_DEFINITION
    THEN Unit_base_unit(unit_str)[2] \o
         UNIT_EXTENDED_DEFINITION[Unit_base_unit(unit_str)[1]].name
    ELSE unit_str

\* Unit.unit_symbol that leaves the symbol of the prefix out
Unit_unit_symbol_of_base(unit_str) ==
    IF Unit_base_unit(unit_str)[1] \in DOMAIN UNIT_EXTENDED_DEFINITION
    THEN UNIT_EXTENDED_DEFINITION[Unit_base_unit(unit_str)[1]].symbol
    ELSE ""

\* Unit.unit_symbol: the symbol of the prefix and the symbol of the base code;
\* '' on the KeyError of PREFIX_SYMBOL and the TypeError of None['symbol']
Unit_unit_symbol(unit_str) ==
    IF /\ Unit_base_unit(unit_str)[2] \in DOMAIN PREFIX_SYMBOL
       /\ Unit_base_unit(unit_str)[1] \in DOMAIN UNIT_EXTENDED_DEFINITION
    THEN PREFIX_SYMBOL[Unit_base_unit(unit_str)[2]] \o
         UNIT_EXTENDED_DEFINITION[Unit_base_unit(unit_str)[1]].symbol
    ELSE ""

\* Unit.unit_name(code), Unit.unit_symbol(code)
UnitLabels ==
    \E code \in LabelledCodes :
        /\ lastOp' = [op |-> "labels", slot |-> 0, code |-> code, ok |-> TRUE,
                      name |-> Unit_unit_name(code),
                      symbol |-> Unit_unit_symbol(code)]
        /\ UNCHANGED <<registries, classAttrs, djsettings, customUnits,
                       customDimensions>>
        /\ UNCHANGED ConverterState

\* search terms of available_dimensions: part of one code, of three codes,
\* of no code
SearchTerms == {"length", "heat", "zz"}

\* `search_term in name` on the dimension codes of the model
Contains(name, search_term) ==
    CASE search_term = "length" -> name = "[length]"
      [] search_term = "heat" ->
            name \in {"[heat]", "[massic_heating_value]",
                      "[volumic_heating_value]"}
      [] OTHER -> FALSE

\* UnitSystem.available_dimension_names(search_term=search_term), a term given
available_dimension_names_matching(us, search_term) ==
    { name \in available_dimension_names(us) : Contains(name, search_term) }

\* UnitSystem.available_dimensions(search_term=search_term), a term given:
\* the cache when it is not empty, else a Dimension for each matching name
available_dimensions_matching(us, search_term) ==
    IF Eff(us.dimensions_cache, classAttrs.dimensions_cache) # {}
    THEN Eff(us.dimensions_cache, classAttrs.dimensions_cache)
    ELSE { dim \in available_dimension_names_matching(us, search_term) :
             DimensionFound(us, dim) }

\* dims = us.available_dimensions(search_term=t)
SearchDimensions ==
    \E i \in 1..MaxInstances, search_term \in SearchTerms :
        /\ registries[i].built
        /\ lastOp' = [op |-> "available_dimensions", slot |-> i,
                      code |-> search_term, ok |-> TRUE,
                      dims |-> available_dimensions_matching(registries[i],
                                                             search_term)]
        /\ UNCHANGED <<registries, classAttrs, djsettings, customUnits,
                       customDimensions>>
        /\ UNCHANGED ConverterState

InitQuery == InitReg

NextQuery ==
    Construct \/ AddUnit \/ AddDimension \/ NewDimension \/ GetUnit

SpecQuery == InitQuery /\ [][NextQuery]_vars

\* the listings: compatible units, units of a dimension, names and symbols,
\* dimensions by search term
InitListing == InitReg

NextListing ==
    \/ Construct \/ AddUnit
    \/ CompatibleUnits \/ DimensionUnits \/ UnitLabels \/ SearchDimensions

SpecListing == InitListing /\ [][NextListing]_vars

(***************************************************************************)
(* Claims                                                                  *)
(***************************************************************************)
IsSuffix(s, t) ==
    /\ Len(s) <= Len(t)
    /\ SubSeq(t, Len(t) - Len(s) + 1, Len(t)) = s

\* the call of the last answer ran convert()
ConvertRan ==
    /\ response.closing
    /\ \/ response.kind = "result"
       \/ response.kind = "unhandled" /\ response.exc = "ValueError"

\* C1: whenever convert() has run on the accumulated quantities it returns a
\* result in which every quantity gave one detail or one error, whatever the
\* other quantities are
C1_EveryQuantityProcessed ==
    ConvertRan =>
        /\ response.kind = "result"
        /\ Len(response.result.detail) + Len(response.result.errors)
              = Len(response.converted)

\* C2 as stated: once convert() has returned for a batch id, the store holds
\* no session under that id in any later state
C2_ClosedStaysAbsent ==
    \A b \in closed : store[b] = Absent

\* C2 amended: when convert() returns for a batch id the session is removed
\* from the store, and a conversion of that id only returns quantities
\* accepted since the last close of that id
C2_RemovedOnConvert ==
    (response.kind = "result" /\ response.id \in BatchIds) =>
        /\ store[response.id] = Absent
        /\ IsSuffix(response.converted, response.fed)

\* the second conversion of a batch id returns the quantities of its second
\* session
C2_Witness ==
    /\ response.kind = "result"
    /\ response.id = "b1"
    /\ response.reconverted
    /\ Len(response.converted) >= 1
    /\ store["b1"] = Absent

\* C3: the quantities converted by the closing call of a batch id are the
\* valid quantities of all the calls of that id since its last close, in order
C3_ConvertsAllAccepted ==
    (response.kind = "result" /\ response.id \in BatchIds) =>
        response.converted = response.fed

\* C4: a call with the id of a stored session keeps the system and the target
\* unit of that session, also in the result it returns
C4_TargetStays ==
    [][\A b \in BatchIds :
          store[b] # Absent =>
            /\ store'[b] # Absent =>
                  /\ store'[b].base_system = store[b].base_system
                  /\ store'[b].base_unit = store[b].base_unit
            /\ (response'.kind = "result" /\ response'.id = b) =>
                  response'.result.target = store[b].base_unit]_vars

\* C5: a call that is answered returns a conversion result exactly when eob is
\* true or no batch id was given, and the session status otherwise
C5_ResultIffClosing ==
    response.kind \in {"result", "status", "400 errors"} =>
        /\ response.closing => response.kind = "result"
        /\ ~response.closing => response.kind = "status"

\* C6: a malformed line in the data of a call with eob true does not keep the
\* call from converting: it is not answered with the list of errors
C6_MalformedStillConverts ==
    (response.malformed /\ response.closing) => response.kind # "400 errors"

\* the dimension of the units of the requests, as pint defines them
C7_Dimension(unit) ==
    CASE unit \in {"meter", "cu"} -> "[length]"
      [] unit = "kilogram" -> "[mass]"
      [] OTHER -> "undefined"

\* C7: in a result, a quantity of an undefined unit is an error with the
\* 'undefined unit' reason, one of another dimension than the target an error
\* with the 'dimensionality' reason, every other one a detail; meter, bogus,
\* kilogram against meter give 1 detail and 2 errors
C7_ErrorReasons ==
    response.kind = "result" =>
        LET r == response.result
            target == C7_Dimension(r.target)
        IN  /\ \A i \in DOMAIN r.detail :
                  C7_Dimension(r.detail[i].unit) = target
            /\ \A i \in DOMAIN r.errors :
                  LET e == r.errors[i]
                  IN  /\ C7_Dimension(e.unit) # target
                      /\ e.error =
                            IF C7_Dimension(e.unit) = "undefined"
                            THEN "Undefined unit in the registry"
                            ELSE "Dimensionality error, incompatible units"
            /\ Len(r.detail) + Len(r.errors) = Len(response.converted)
            /\ ([i \in DOMAIN response.converted |->
                    response.converted[i].unit]
                  = <<"meter", "bogus", "kilogram">> /\ r.target = "meter")
                 => Len(r.detail) = 1 /\ Len(r.errors) = 2

C7_Witness ==
    /\ response.kind = "result"
    /\ response.result.target = "meter"
    /\ [i \in DOMAIN response.converted |-> response.converted[i].unit]
          = <<"meter", "bogus", "kilogram">>
    /\ Len(response.result.detail) = 1
    /\ Len(response.result.errors) = 2

\* C8: when the converter cannot be created (unsupported system, target unit
\* not in the registry) the endpoint answers 400 'Error initializing converter'
C8_InitErrorAnswers400 ==
    response.exc = "UnitConverterInitError" => response.kind = "400 init"

\* C9: after add_dimension / add_unit on a built registry its caches hold the
\* added code, and Dimension(unit_system, code) resolves
C9_CachesReflectAdded ==
    \A i \in 1..MaxInstances :
        (registries[i].built /\ lastOp.slot = i) =>
            /\ lastOp.op = "add_dimension" =>
                  /\ lastOp.code \in Eff(registries[i].dimensions_cache,
                                         classAttrs.dimensions_cache)
                  /\ DimensionFound(registries[i], lastOp.code)
            /\ lastOp.op = "add_unit" =>
                  lastOp.code \in Eff(registries[i].units_cache,
                                      classAttrs.units_cache)

\* what a caller reads of an instance
Observed(us, cls) ==
    [additional_units |-> Eff(us.additional_units, cls.additional_units),
     additional_dimensions |->
        Eff(us.additional_dimensions, cls.additional_dimensions),
     dimensions_cache |-> Eff(us.dimensions_cache, cls.dimensions_cache),
     units_cache |-> Eff(us.units_cache, cls.units_cache)]

\* C10: an operation on one instance changes neither what is read of another
\* instance, nor the class attributes, nor the settings tables
C10_RegistriesIsolated ==
    [][/\ \A j \in 1..MaxInstances :
             (registries[j].built /\ lastOp'.slot # j) =>
                 Observed(registries'[j], classAttrs')
                    = Observed(registries[j], classAttrs)
       /\ classAttrs' = classAttrs
       /\ djsettings' = djsettings]_vars

\* two instances with different loaded units, one of them just extended
C10_Witness ==
    /\ registries[1].built /\ registries[2].built
    /\ Observed(registries[1], classAttrs).additional_units
          # Observed(registries[2], classAttrs).additional_units
    /\ lastOp.op = "add_dimension" /\ lastOp.slot = 1

\* the registry of slot 1 was opened by the last step
Opened == lastOp.op = "UnitSystem" /\ lastOp.ok /\ registries[1].built

\* C11's reading of a row that a registry of (user, key) may load
C11_Permitted(r, us) ==
    /\ us.user \in Users \cup Superusers
    /\ us.user \in Superusers \/ r.user = us.user
    /\ us.key = NoKey \/ r.key = us.key \/ r.key = NoKey
    /\ r.unit_system = us.system_name

\* the relations the settings tables give a unit code for a system
C11_SettingsRelations(system_name, code) ==
    { t[system_name][code].relation :
        t \in { x \in {djsettings.ADDITIONAL_UNITS,
                       djsettings.ADDITIONAL_BASE_UNITS} :
                  /\ system_name \in DOMAIN x
                  /\ code \in DOMAIN x[system_name] } }

C11_SettingsDimensions(system_name) ==
    IF system_name \in DOMAIN djsettings.ADDITIONAL_DIMENSIONS
    THEN DOMAIN djsettings.ADDITIONAL_DIMENSIONS[system_name]
    ELSE {}

\* C11: every custom unit and custom dimension an opened registry holds
\* comes from a row of its user (of any user for a superuser), of its key or
\* of no key, and of its system; a registry without authenticated user holds
\* none
C11_OwnerScoped ==
    Opened =>
        LET us == registries[1]
        IN  /\ \A code \in DOMAIN us.defs :
                  \/ us.defs[code] \in
                        C11_SettingsRelations(us.system_name, code)
                  \/ \E r \in customUnits :
                        /\ r.code = code
                        /\ r.relation = us.defs[code]
                        /\ C11_Permitted(r, us)
            /\ \A code \in us.dims \ (BuiltinDimensions \cup
                                      C11_SettingsDimensions(us.system_name)) :
                  \E r \in customDimensions :
                        r.code = code /\ C11_Permitted(r, us)

\* alice's registry for key k1 holds her unit of k1 and her unit without key,
\* not her unit of k2, and bob's definition of cu is in the store
C11_Witness ==
    /\ Opened
    /\ registries[1].user = "alice" /\ registries[1].key = "k1"
    /\ {"cu", "furlong"} \subseteq DOMAIN registries[1].defs
    /\ "cu2" \notin DOMAIN registries[1].defs
    /\ registries[1].defs["cu"].coef = 3
    /\ \E r \in customUnits : r.user = "bob" /\ r.code = "cu"
    /\ "[cd]" \in registries[1].dims

\* the codes a settings table names for a system
C18_Codes(table, system_name) ==
    IF system_name \in DOMAIN table THEN DOMAIN table[system_name] ELSE {}

\* the rows of the store that the registry reads (C11)
C18_Rows(rows, us) == { r \in rows : C11_Permitted(r, us) }

\* C18: a code of ADDITIONAL_DIMENSIONS that is a dimension of the registry,
\* a code of ADDITIONAL_BASE_UNITS / ADDITIONAL_UNITS or of a custom unit of
\* the owner that is an available unit name when its table or queryset is
\* loaded, is not defined from that table or row: the definition the registry
\* had stays, and the code does not enter the set of additional names
C18_AvailableSkipped ==
    Opened =>
        LET us == registries[1]
            sys == us.system_name
            avail0 == PrefixedUnitNames \cup SystemMembers(sys)
            base == C18_Codes(djsettings.ADDITIONAL_BASE_UNITS, sys) \ avail0
            avail1 == avail0 \cup base
            units == C18_Codes(djsettings.ADDITIONAL_UNITS, sys) \ avail1
            rows == C18_Rows(customUnits, us)
            kept(k) == k \notin us.redefined /\
                       k \notin DOMAIN us.defs /\
                       k \notin Eff(us.additional_units, {})
        IN  /\ \A k \in C18_Codes(djsettings.ADDITIONAL_DIMENSIONS, sys)
                        \cap BuiltinDimensions :
                  \/ \E r \in C18_Rows(customDimensions, us) : r.code = k
                  \/ k \notin us.redefined /\
                     k \notin Eff(us.additional_dimensions, {})
            /\ \A k \in (C18_Codes(djsettings.ADDITIONAL_BASE_UNITS, sys)
                         \cup C18_Codes(djsettings.ADDITIONAL_UNITS, sys)
                         \cup { r.code : r \in rows }) \cap avail0 : kept(k)
            /\ \A k \in base :
                  /\ k \notin us.redefined
                  /\ us.defs[k] =
                        djsettings.ADDITIONAL_BASE_UNITS[sys][k].relation
            /\ \A k \in units :
                  /\ k \notin us.redefined
                  /\ us.defs[k] = djsettings.ADDITIONAL_UNITS[sys][k].relation

\* the tables name meter (a member of SI), kilometer (a prefixed name) and
\* furlong twice, alice has a custom unit furlong: furlong is the one of
\* ADDITIONAL_BASE_UNITS, chain is loaded
C18_Witness ==
    /\ Opened
    /\ djsettings = ConflictingSettings
    /\ registries[1].user = "alice" /\ registries[1].system_name = "SI"
    /\ \E r \in customUnits : r.code = "furlong" /\ r.user = "alice"
    /\ registries[1].defs["furlong"].coef = 100
    /\ "chain" \in DOMAIN registries[1].defs
    /\ {"meter", "kilometer"} \cap DOMAIN registries[1].defs = {}

\* C19: a stored custom dimension of the owner whose code is a dimension name
\* of the registry when the custom dimensions are loaded is not defined a
\* second time
C19_CustomDimensionSkipped ==
    Opened =>
        LET us == registries[1]
            before == BuiltinDimensions \cup
                      C18_Codes(djsettings.ADDITIONAL_DIMENSIONS,
                                us.system_name)
        IN  \A r \in C18_Rows(customDimensions, us) :
                r.code \in before => r.code \notin us.redefined

\* C20: with a relation that does not parse in a settings table, UnitSystem()
\* of an available system returns, and the registry holds every definition of
\* the tables that parses
C20_BrokenDefinitionSkipped ==
    (lastOp.op = "UnitSystem" /\ ValidSystem(lastOp.system_name)) =>
        /\ lastOp.ok
        /\ LET us == registries[1]
               sys == us.system_name
           IN  /\ \A k \in C18_Codes(djsettings.ADDITIONAL_DIMENSIONS, sys) :
                     DimensionRelationParses(
                        djsettings.ADDITIONAL_DIMENSIONS[sys][k].relation)
                     => k \in us.dims
               /\ \A k \in C18_Codes(djsettings.ADDITIONAL_UNITS, sys) :
                     UnitRelationParses(
                        djsettings.ADDITIONAL_UNITS[sys][k].relation)
                     => k \in DOMAIN us.defs \cup PrefixedUnitNames
                              \cup SystemMembers(sys)

\* the exceptions of the admission checks
C12_Errors ==
    {"UnitDuplicateError", "UnitValueError", "UnitDimensionError",
     "DimensionDuplicateError", "DimensionValueError",
     "DimensionDimensionError"}

\* a row of CustomUnit that passed the duplicate check, the parsing and the
\* dimensional check of a registry without user
C12_UnitChecked(r) ==
    /\ ValidSystem(r.unit_system)
    /\ r.code \notin PrefixedUnitNames
                     \cup SystemMembers(CanonicalSystem(r.unit_system))
                     \cup C18_Codes(djsettings.ADDITIONAL_UNITS,
                                    CanonicalSystem(r.unit_system))
    /\ r.relation.ref \notin MalformedUnitRefs
    /\ r.relation.ref \in DOMAIN BuiltinDefs \cup PrefixedUnitNames
                          \cup C18_Codes(djsettings.ADDITIONAL_UNITS,
                                         CanonicalSystem(r.unit_system))

\* a row of CustomDimension that passed the duplicate check, the parsing and
\* the check of its references, rows being the store before the call
C12_DimensionChecked(r, rows) ==
    LET names == BuiltinDimensions
                 \cup C18_Codes(djsettings.ADDITIONAL_DIMENSIONS,
                                CanonicalSystem(r.unit_system))
                 \cup { o.code : o \in { x \in rows : x.user = r.user } }
    IN  /\ ValidSystem(r.unit_system)
        /\ r.code \notin BuiltinDimensions /\ r.relation \notin BuiltinDimensions
        /\ r.relation \notin MalformedDimensionRelations
        /\ \A i \in 1..Len(DimensionRefs(r.relation)) :
              DimensionRefs(r.relation)[i] \in names

\* C12: a save() that raises one of the errors of the checks leaves both
\* stores as they were, and every row that enters a store passed the
\* duplicate check, the parsing of its relation and the dimensional check
C12_FailClosed ==
    [][ /\ (/\ lastOp'.op \in {"CustomUnit.save", "CustomDimension.save"}
            /\ lastOp'.exc \in C12_Errors)
           => (customUnits' = customUnits /\
               customDimensions' = customDimensions)
        /\ \A r \in customUnits' \ customUnits : C12_UnitChecked(r)
        /\ \A r \in customDimensions' \ customDimensions :
              C12_DimensionChecked(r, customDimensions)
      ]_vars

\* a save() has raised UnitDimensionError, another would raise
\* DimensionDimensionError: the stores hold the rows they held at the start
C12_Witness ==
    /\ lastOp.op = "CustomUnit.save"
    /\ lastOp.exc = "UnitDimensionError"
    /\ customUnits = InitialCustomUnits
    /\ customDimensions = InitialCustomDimensions

\* C13: a POST of a custom unit that is answered 'Incoherent unit and
\* dimension' fails and leaves the stores as they were before it
C13_IncoherentRolledBack ==
    [][ (/\ lastOp'.op = "CustomUnitViewSet.create"
         /\ lastOp'.text = "Incoherent unit and dimension")
        => /\ lastOp'.status = 400
           /\ customUnits' = customUnits
           /\ customDimensions' = customDimensions
      ]_vars

\* the dimension names of the registry save() builds for the owner
C14_Names(system_name, user, key) ==
    available_dimension_names(UnitSystem(system_name, user, key).us)

\* C14: save() of a custom dimension whose normalized code or whose relation
\* is a dimension name of the owner's registry raises DimensionDuplicateError;
\* the stores, the class attributes of UnitSystem and the registry any caller
\* builds afterwards are what they were
C14_DuplicateRefused ==
    [][ (/\ lastOp'.op = "CustomDimension.save"
         /\ ValidSystem(lastOp'.system_name)
         /\ \/ lastOp'.code \in
                 C14_Names(lastOp'.system_name, lastOp'.user, lastOp'.key)
            \/ lastOp'.relation \in
                 C14_Names(lastOp'.system_name, lastOp'.user, lastOp'.key))
        => /\ lastOp'.exc = "DimensionDuplicateError"
           /\ customUnits' = customUnits
           /\ customDimensions' = customDimensions
           /\ classAttrs' = classAttrs /\ djsettings' = djsettings
           /\ \A caller \in RegistryCallers :
                 UnitSystem_of(customUnits', customDimensions',
                     lastOp'.system_name, caller.user, caller.key) =
                 UnitSystem_of(customUnits, customDimensions,
                     lastOp'.system_name, caller.user, caller.key)
      ]_vars

\* alice submits the code of her stored dimension again; a relation that is
\* a dimension name is refused as well
C14_Witness ==
    /\ lastOp.op = "CustomDimension.save"
    /\ lastOp.exc = "DimensionDuplicateError"
    /\ lastOp.code = "[cd]" /\ lastOp.user = "alice"
    /\ lastOp.relation = "[length]/[time]"
    /\ customDimensions = InitialCustomDimensions

\* the case of C15: a save() of a custom dimension of an available system,
\* neither code nor relation being a dimension name, whose relation parses
\* and refers to a dimension the owner's registry does not have
C15_Case(op, names) ==
    /\ op.op = "CustomDimension.save"
    /\ ValidSystem(op.system_name)
    /\ op.code \notin names /\ op.relation \notin names
    /\ op.relation \notin MalformedDimensionRelations
    /\ \E i \in 1..Len(DimensionRefs(op.relation)) :
          DimensionRefs(op.relation)[i] \notin names

\* C15 as stated: the save() fails with DimensionNotFound, nothing persisted
C15_FailsWithDimensionNotFound ==
    [][ C15_Case(lastOp', C14_Names(lastOp'.system_name, lastOp'.user,
                                    lastOp'.key))
        => /\ lastOp'.exc = "DimensionNotFound"
           /\ customDimensions' = customDimensions
      ]_vars

\* C15: the save() fails with DimensionDimensionError, its message being
\* 'Dimension not found' and the first reference the registry does not have,
\* and nothing is persisted
C15_UnregisteredReferenceRefused ==
    [][ C15_Case(lastOp', C14_Names(lastOp'.system_name, lastOp'.user,
                                    lastOp'.key))
        => /\ lastOp'.exc = "DimensionDimensionError"
           /\ lastOp'.text = "Dimension not found"
           /\ lastOp'.ref \notin C14_Names(lastOp'.system_name, lastOp'.user,
                                           lastOp'.key)
           /\ \E i \in 1..Len(DimensionRefs(lastOp'.relation)) :
                 DimensionRefs(lastOp'.relation)[i] = lastOp'.ref
           /\ customUnits' = customUnits
           /\ customDimensions' = customDimensions
      ]_vars

C15_Witness ==
    /\ lastOp.op = "CustomDimension.save"
    /\ lastOp.relation = "[bogus]/[time]"
    /\ lastOp.exc = "DimensionDimensionError"
    /\ lastOp.ref = "[bogus]"
    /\ customDimensions = InitialCustomDimensions

\* C16: a POST of a custom unit whose save() returned, with the name of a
\* dimension the registry does not have, is answered 201 and leaves a custom
\* dimension of that name whose relation is the dimensionality of the unit
C16_DimensionCreated ==
    [][ (/\ lastOp'.op = "CustomUnitViewSet.create"
         /\ lastOp'.saved
         /\ lastOp'.dimension # ""
         /\ lastOp'.dimension \notin
               C14_Names(lastOp'.system_name, lastOp'.user, lastOp'.key))
        => /\ lastOp'.status = 201
           /\ \E d \in customDimensions' \ customDimensions :
                 /\ d.code = BracketedCode(lastOp'.dimension)
                 /\ d.user = lastOp'.user /\ d.key = lastOp'.key
      ]_vars

\* C17: save() of a custom unit of an owner, (a) with a new code and a
\* relation to a custom unit the owner's registry holds, returns; (b) with the
\* code of a custom unit the owner's registry holds, raises UnitDuplicateError
C17_ValidatedAgainstOwnersRegistry ==
    [][ (lastOp'.op = "CustomUnit.save" /\ ValidSystem(lastOp'.system_name))
        => LET us == UnitSystem(lastOp'.system_name, lastOp'.user,
                                lastOp'.key).us
               owned == { r.code : r \in CustomRows(customUnits, us,
                                          lastOp'.user, lastOp'.key) }
           IN  /\ (/\ lastOp'.relation.ref \in owned
                   /\ lastOp'.code \notin available_unit_names(us))
                  => lastOp'.exc = ""
               /\ lastOp'.code \in owned
                  => lastOp'.exc = "UnitDuplicateError"
      ]_vars

\* C21: UnitSystem(name) returns only for a name that equals an available
\* system when letter case is ignored, the registry then carries the spelling
\* of the available system; for every other name it raises
\* UnitSystemNotFound and no registry is built
C21_OnlyAvailableSystems ==
    lastOp.op = "UnitSystem" =>
        LET matches == { a \in AvailableSystems :
                           Lower(a) = Lower(lastOp.system_name) }
        IN  /\ lastOp.ok =>
                 /\ registries[1].built
                 /\ registries[1].system_name \in matches
            /\ matches = {} =>
                 /\ ~lastOp.ok
                 /\ lastOp.exc = "UnitSystemNotFound"
                 /\ ~registries[1].built

\* 'si' has opened the registry of SI, and 'zz' is refused in another state
C21_Witness ==
    /\ lastOp.op = "UnitSystem"
    /\ lastOp.system_name = "si"
    /\ lastOp.ok
    /\ registries[1].system_name = "SI"

\* C22: Dimension(us, code) raises DimensionNotFound for a code that is
\* neither a dimension of the registry nor a pseudo-dimension, whatever was
\* added to the registry since it was built; '[compounded]' and '[custom]'
\* are never refused
C22_UnknownDimensionRefused ==
    lastOp.op = "Dimension" =>
        /\ lastOp.code \in {"[compounded]", "[custom]"} => lastOp.ok
        /\ (/\ lastOp.code \notin {"[compounded]", "[custom]"}
            /\ lastOp.code \notin registries[lastOp.slot].dims)
           => (~lastOp.ok /\ lastOp.exc = "DimensionNotFound")

\* '[bogus]' is refused by a registry to which add_dimension added '[nd]'
C22_Witness ==
    /\ lastOp.op = "Dimension"
    /\ lastOp.code = "[bogus]"
    /\ lastOp.exc = "DimensionNotFound"
    /\ "[nd]" \in registries[lastOp.slot].dims

\* the codes the registry of a slot resolves: members and units of pint,
\* prefixed codes, definitions of the registry whose relation resolves
C23_Resolves(us, code) ==
    /\ code # ""
    /\ \/ code \in DOMAIN BuiltinDefs \cup PrefixedUnitNames
       \/ /\ code \in DOMAIN us.defs
          /\ us.defs[code].ref \in DOMAIN BuiltinDefs \cup PrefixedUnitNames

C24_Compatible(v) ==
    UnitViewset_compatible_units(
        UnitSystem(lastOp.system_name, lastOp.user, lastOp.key), v)

\* C24: the compatible units of every unit code u of a registry, prefixed
\* codes included, contain u, and v is compatible with u if and only if u is
\* compatible with v
C24_ReflexiveSymmetric ==
    (lastOp.op = "compatible_units" /\ lastOp.status = 200) =>
        /\ lastOp.code \in lastOp.units
        /\ \A v \in LookedUpUnits :
              C24_Compatible(v).status = 200 =>
                  (v \in lastOp.units <=>
                      lastOp.code \in C24_Compatible(v).units)

(***************************************************************************)
(* C25                                                                     *)
(***************************************************************************)
\* C25: the units of a named dimension hold, for every unit of the dimension
\* with an entry in the prefix table, each prefixed unit of the entry, and no
\* unit code is twice in the list
C25_PrefixedUnitsListed ==
    lastOp.op = "units" =>
        /\ \A k \in DOMAIN PREFIXED_UNITS_DISPLAY :
              k \in lastOp.units =>
                  \A i \in 1..Len(PREFIXED_UNITS_DISPLAY[k]) :
                      (PREFIXED_UNITS_DISPLAY[k][i] \o k) \in lastOp.units
        /\ lastOp.twice = {}

(***************************************************************************)
(* C26                                                                     *)
(***************************************************************************)
\* C26: load(id) of a stored session, whoever calls it, returns the session
\* with a registry that resolves the custom units of the registry the session
\* was created with, the one of the system, user and key the session holds
C26_LoadUsesPersistedScope ==
    \A b \in BatchIds, caller \in Callers :
        store[b] # Absent =>
            \E loaded \in {UnitConverter_load(Cache(store, FALSE), b,
                                              caller.user, caller.key)} :
                /\ loaded.ok
                /\ DOMAIN loaded.system.defs =
                      DOMAIN UnitSystem(store[b].base_system, store[b].user,
                                        store[b].key).us.defs

(***************************************************************************)
(* C27                                                                     *)
(***************************************************************************)
\* the prefixes the prefix table lists for a base code
C27_Prefixes(base) ==
    { PREFIXED_UNITS_DISPLAY[base][i] :
        i \in 1..Len(PREFIXED_UNITS_DISPLAY[base]) }

\* the reading of a code: a listed prefix and its base code when there is
\* one, else the code alone
C27_Splits(code) ==
    LET prefixed == { x \in PintPrefixes \X (DOMAIN PREFIXED_UNITS_DISPLAY) :
                        code = x[1] \o x[2] /\ x[1] \in C27_Prefixes(x[2]) }
    IN  IF prefixed # {} THEN prefixed ELSE {<<"", code>>}

\* C27: unit_symbol and unit_name read a code as at most one listed prefix and
\* a base code and return the symbol (name) of the prefix followed by the
\* symbol (name) of the base code in the table; unit_symbol('kilogram') is
\* 'kg'; for a base code the table lacks nothing is raised, unit_symbol
\* returns '' and unit_name the code as given
C27_PrefixAndBaseLabels ==
    lastOp.op = "labels" =>
        /\ lastOp.ok
        /\ \A x \in C27_Splits(lastOp.code) :
              IF x[2] \in DOMAIN UNIT_EXTENDED_DEFINITION
              THEN /\ lastOp.symbol = PREFIX_SYMBOL[x[1]] \o
                                      UNIT_EXTENDED_DEFINITION[x[2]].symbol
                   /\ lastOp.name = x[1] \o UNIT_EXTENDED_DEFINITION[x[2]].name
              ELSE lastOp.symbol = "" /\ lastOp.name = lastOp.code
        /\ lastOp.code = "kilogram" => lastOp.symbol = "kg"
        /\ lastOp.code = "kilosecond" =>
              (lastOp.symbol = "" /\ lastOp.name = "kilosecond")

\* unit_symbol('kilogram') has returned 'kg'
C27_Witness ==
    /\ lastOp.op = "labels"
    /\ lastOp.code = "kilogram"
    /\ lastOp.symbol = "kg"
    /\ lastOp.name = "kilogram"

(***************************************************************************)
(* C28                                                                     *)
(***************************************************************************)
\* C28: on a built registry available_dimensions(search_term=t) returns only
\* dimensions whose code contains t
C28_OnlyMatchingDimensions ==
    lastOp.op = "available_dimensions" =>
        \A d \in lastOp.dims : Contains(d, lastOp.code)

(***************************************************************************)
(* C29                                                                     *)
(***************************************************************************)
\* C29: when save() ends, by returning or by the exception of the write to
\* the store, the converter has the system and the unit it had before the
\* call, and what was handed to the store holds neither
C29_SaveKeepsReferences ==
    lastOp.op \in {"save", "add_data"} =>
        /\ lastOp.uc.system = lastOp.before.system
        /\ lastOp.uc.unit = lastOp.before.unit
        /\ lastOp.handed.system = NoSystem
        /\ lastOp.handed.unit = None

(***************************************************************************)
(* C30                                                                     *)
(***************************************************************************)
\* the endpoint has just admitted a custom unit for an owner
C30_Admitted ==
    /\ lastOp.op = "CustomUnitViewSet.create"
    /\ lastOp.status = 201
    /\ \E o \in Owners : o.user = lastOp.user /\ o.key = lastOp.key

\* C30: once the endpoint has admitted a custom unit for an owner under a
\* spelling of a system name that the registry accepts, a registry opened for
\* that system, the owner and the key resolves the code of the unit
C30_AdmittedUnitResolves ==
    C30_Admitted =>
        \E opened \in {UnitSystem(CanonicalSystem(lastOp.system_name),
                                  lastOp.user, lastOp.key)} :
            /\ opened.ok
            /\ lastOp.code \in DOMAIN opened.us.defs
            /\ UnitFound(opened.us, lastOp.code)

=============================================================================
